---- MODULE Spec2Model ----
(***************************************************************************)
(* A model of the compact telemetry codec and of the scripts that drive   *)
(* it: the three Locust services (Compact Struct + zlib, MessagePack,     *)
(* CBOR), the Positional (protobuf) encoder pipeline and the pure codec   *)
(* functions.  Each script is a separate program; the variable `program`  *)
(* says which one a behaviour runs.                                        *)
(*                                                                         *)
(* Byte strings produced by external libraries (zlib.compress,            *)
(* pb.SerializeToString) are represented by their length: the library's   *)
(* output length is an input of the model, drawn from a set around        *)
(* MAX_PAYLOAD_SIZE.  Text is a sequence of one-character strings.        *)
(***************************************************************************)
EXTENDS Integers, Sequences, FiniteSets, TLC

VARIABLES
    program,            \* which script runs: "struct", "msgpack", "cbor", "positional", "codec", "session"
    \* ---- Locust services: class attributes of ContainerDataSender
    _data_pool_size,    \* cls._data_pool_size (LOCUST_DATA_POOL_SIZE)
    _data_pool,         \* cls._data_pool: sequence of [compressed, size]
    _pool_initialized,  \* cls._pool_initialized
    \* ---- initialize_data_pool: position and locals
    initPc,             \* "idle", "outer", "inner", "finish"
    initBy,             \* the user whose on_start runs initialize_data_pool (0: none)
    generated_count,
    rejected_count,
    batch_target,
    batch_generated,
    samples,            \* history: the compressed sizes generated by the running call
    initError,          \* history: a call of initialize_data_pool raised
    initCalls,          \* history: how many calls of initialize_data_pool made a new pool
    \* ---- per-user state (instance attributes) and the HTTP transport
    userState,          \* "new", "starting", "running", "failed"
    data_index,
    message_id,
    posted,             \* body lengths handed to client.post
    \* ---- Positional pipeline (encoder_to_astrocast.main)
    mainPc,             \* "idle", "validate", "serialize", "output", "save", "serial", "print", "done", "failed"
    data,               \* the input mapping
    args,               \* parsed command line: [preview, save, serial]
    serializedLen,      \* history: len(pb.SerializeToString()) inside serialize, -1 before
    raw,                \* result of serialize, or NoBytes
    mainError,          \* the exception that ended main, or NoError
    saved,              \* lengths written by save_artifacts
    serialSent,         \* payload lengths written to the serial port
    printed,            \* lengths of the hex payloads printed on stdout
    \* ---- pure codec functions applied to one input
    codecFn,            \* "none", or the name of the function applied
    codecArg,
    codecOut,
    \* ---- a session of encoder calls in one process
    records,            \* the dicts the session passes to the encoders, by name
    result,             \* the bytearray of simulate_c_msgpack_compression, as its last call left it
    binary_data,        \* the buffer of struct_zlib_compress, as its last call left it
    serialized_size,    \* len(pb.SerializeToString()) for each record, fixed by the library
    calls               \* history: the calls made so far, [fn, arg, out]

serviceVars == <<_data_pool_size, _data_pool, _pool_initialized, initPc, initBy,
                 generated_count, rejected_count, batch_target, batch_generated,
                 samples, initError, initCalls, userState, data_index, message_id,
                 posted>>
mainVars == <<mainPc, data, args, serializedLen, raw, mainError, saved, serialSent, printed>>
sessionVars == <<records, result, binary_data, serialized_size, calls>>
codecVars == <<codecFn, codecArg, codecOut, sessionVars>>
vars == <<program, serviceVars, mainVars, codecVars>>

-----------------------------------------------------------------------------
(* Bounds of the exploration *)

\* largest LOCUST_DATA_POOL_SIZE explored (0 is included: it makes avg_size divide by zero)
MaxPoolSize == 2
\* compressed sizes range over MAX_PAYLOAD_SIZE - SizeSpread .. MAX_PAYLOAD_SIZE + SizeSpread
SizeSpread == 1
\* rejected_count is unbounded in the code; the exploration stops rejecting here
MaxRejected == 2
\* message_id is unbounded in the code; a user posts at most this many messages
MaxMessages == 2
\* simulated users of one worker process
NumUsers == 2

Users == 1..NumUsers

-----------------------------------------------------------------------------
(* Program constants *)

MAX_PAYLOAD_SIZE == 158
batch_size == 50000

REQUIRED_FIELDS ==
    << "msisdn", "iso6346", "time", "rssi", "cgi", "ble-m", "bat-soc",
       "acc", "temperature", "humidity", "pressure", "door", "gnss",
       "latitude", "longitude", "altitude", "speed", "heading", "nsat", "hdop" >>

Min(a, b) == IF a < b THEN a ELSE b

Range(s) == { s[i] : i \in DOMAIN s }

-----------------------------------------------------------------------------
(* Sizes of the payloads the services generate *)

\* the size-budget comparison of initialize_data_pool and send_container_data
\* (Compact Struct service): `size >= MAX_PAYLOAD_SIZE`
TooLargeLoose(size) == size > MAX_PAYLOAD_SIZE
TooLarge(size) == size >= MAX_PAYLOAD_SIZE

\* len(zlib.compress(...)): the compressor is a library; its output length is
\* any value around the limit
StructSampleSizes == (MAX_PAYLOAD_SIZE - SizeSpread)..(MAX_PAYLOAD_SIZE + SizeSpread)

\* byte length of each field name
NameLen(k) ==
    CASE k = "msisdn" -> 6  [] k = "iso6346" -> 7  [] k = "time" -> 4
      [] k = "rssi" -> 4    [] k = "cgi" -> 3      [] k = "ble-m" -> 5
      [] k = "bat-soc" -> 7 [] k = "acc" -> 3      [] k = "temperature" -> 11
      [] k = "humidity" -> 8 [] k = "pressure" -> 8 [] k = "door" -> 4
      [] k = "gnss" -> 4    [] k = "latitude" -> 8 [] k = "longitude" -> 9
      [] k = "altitude" -> 8 [] k = "speed" -> 5   [] k = "heading" -> 7
      [] k = "nsat" -> 4    [] k = "hdop" -> 4

\* lengths of the texts generate_test_container_data formats for each field
\* (MessagePack and CBOR services: latitude and longitude with 4 decimals)
GenValueLens(k) ==
    CASE k = "msisdn" -> {12}     \* "39360050" + 4 digits
      [] k = "iso6346" -> {11}    \* "LMCU" + zfill(7)
      [] k = "time" -> {15}       \* "%d%m%y %H%M%S.%f"[:-5]
      [] k = "rssi" -> {2}        \* 15..35
      [] k = "cgi" -> {14}
      [] k = "ble-m" -> {1}
      [] k = "bat-soc" -> {2}     \* 76..96
      [] k = "acc" -> {27}        \* "-9xx.xxxx -xx.xxxx -xx.xxxx"
      [] k = "temperature" -> {5} \* 17.00..27.00
      [] k = "humidity" -> {5}    \* 61.00..81.00
      [] k = "pressure" -> {9}    \* 1002.4000..1022.4000
      [] k = "door" -> {1}
      [] k = "gnss" -> {1}
      [] k = "latitude" -> {7}
      [] k = "longitude" -> {7}
      [] k = "altitude" -> {5}    \* 39.50..59.50
      [] k = "speed" -> {3, 4}    \* 0.0..40.0
      [] k = "heading" -> {4, 5, 6} \* 0.00..360.00
      [] k = "nsat" -> {2}
      [] k = "hdop" -> {3}        \* 0.5..5.5

\* the value-length vectors of generated records, in field order
RECURSIVE GenLenSeqs(_)
GenLenSeqs(i) ==
    IF i = 0 THEN { <<>> }
    ELSE { Append(s, v) : s \in GenLenSeqs(i - 1), v \in GenValueLens(REQUIRED_FIELDS[i]) }

\* MessagePack: size of a string of n bytes with its tag, and of a map header
MsgpackStrSize(n) == IF n <= 31 THEN 1 + n ELSE IF n <= 255 THEN 2 + n ELSE 3 + n
MsgpackMapHeaderSize(count) == IF count <= 15 THEN 1 ELSE 3

\* CBOR: size of a text string of n bytes with its head, and of a map head
CborStrSize(n) == IF n <= 23 THEN 1 + n ELSE IF n <= 255 THEN 2 + n ELSE 3 + n
CborMapHeaderSize(count) == IF count <= 23 THEN 1 ELSE IF count <= 255 THEN 2 ELSE 3

RECURSIVE MsgpackPairsSize(_, _)
MsgpackPairsSize(lens, i) ==
    IF i = 0 THEN 0
    ELSE MsgpackPairsSize(lens, i - 1)
         + MsgpackStrSize(NameLen(REQUIRED_FIELDS[i])) + MsgpackStrSize(lens[i])

RECURSIVE CborPairsSize(_, _)
CborPairsSize(lens, i) ==
    IF i = 0 THEN 0
    ELSE CborPairsSize(lens, i - 1)
         + CborStrSize(NameLen(REQUIRED_FIELDS[i])) + CborStrSize(lens[i])

\* len(msgpack_compress(data)) and len(cbor_compress(data)) for a record of
\* string values with the given lengths
msgpack_compress_size(lens) == MsgpackMapHeaderSize(Len(lens)) + MsgpackPairsSize(lens, Len(lens))
cbor_compress_size(lens) == CborMapHeaderSize(Len(lens)) + CborPairsSize(lens, Len(lens))

\* the sizes of the payloads the MessagePack and the CBOR service generate
MsgpackSampleSizes == { msgpack_compress_size(l) : l \in GenLenSeqs(Len(REQUIRED_FIELDS)) }
CborSampleSizes == { cbor_compress_size(l) : l \in GenLenSeqs(Len(REQUIRED_FIELDS)) }
MapSampleSizes(prog) == IF prog = "msgpack" THEN MsgpackSampleSizes ELSE CborSampleSizes


-----------------------------------------------------------------------------
(* The Locust services: ContainerDataSender                                 *)
(*                                                                           *)
(* Users are greenlets of one worker process, scheduled cooperatively:      *)
(* initialize_data_pool contains no blocking call, so no other user runs    *)
(* between its steps.  Its loop is still modelled step by step (initPc) so  *)
(* that the states during generation are states of the model.               *)

Services == { "struct", "msgpack", "cbor" }

PoolEntry(compressedLen) == [ compressed |-> compressedLen, size |-> compressedLen ]

\* on_start: reset the user's counters, then initialize_data_pool unless the
\* pool is initialized; the first lines of initialize_data_pool are part of
\* the step (the pool is reset to [], the counters to 0)
OnStart(u) ==
    /\ program \in Services
    /\ initPc = "idle"
    /\ userState[u] = "new"
    /\ message_id' = [message_id EXCEPT ![u] = 0]
    /\ data_index' = [data_index EXCEPT ![u] = 0]
    /\ IF ~_pool_initialized
       THEN /\ _data_pool' = <<>>
            /\ initCalls' = initCalls + 1
            /\ generated_count' = 0
            /\ rejected_count' = 0
            /\ samples' = << >>
            /\ initPc' = "outer"
            /\ initBy' = u
            /\ userState' = [userState EXCEPT ![u] = "starting"]
       ELSE /\ userState' = [userState EXCEPT ![u] = "running"]
            /\ UNCHANGED <<_data_pool, initCalls, generated_count, rejected_count,
                           samples, initPc, initBy>>
    /\ UNCHANGED <<program, _data_pool_size, _pool_initialized, batch_target,
                   batch_generated, initError, posted, mainVars, codecVars>>

\* while generated_count < cls._data_pool_size: start a batch, or leave the loop
OuterLoopOffByOne ==
    /\ initPc = "outer"
    /\ IF generated_count <= _data_pool_size
       THEN /\ batch_target' = Min(batch_size, _data_pool_size - generated_count)
            /\ batch_generated' = 0
            /\ initPc' = "inner"
       ELSE /\ initPc' = "finish"
            /\ UNCHANGED <<batch_target, batch_generated>>
    /\ UNCHANGED <<program, _data_pool_size, initCalls, _data_pool, _pool_initialized, initBy,
                   generated_count, rejected_count, samples, initError, userState,
                   data_index, message_id, posted, mainVars, codecVars>>
OuterLoop ==
    /\ initPc = "outer"
    /\ IF generated_count < _data_pool_size
       THEN /\ batch_target' = Min(batch_size, _data_pool_size - generated_count)
            /\ batch_generated' = 0
            /\ initPc' = "inner"
       ELSE /\ initPc' = "finish"
            /\ UNCHANGED <<batch_target, batch_generated>>
    /\ UNCHANGED <<program, _data_pool_size, initCalls, _data_pool, _pool_initialized, initBy,
                   generated_count, rejected_count, samples, initError, userState,
                   data_index, message_id, posted, mainVars, codecVars>>

\* lines 133-137: the sample is too large; count it and `continue`
RejectSampleCounted ==
    /\ rejected_count < MaxRejected
    /\ rejected_count' = rejected_count + 1
    /\ batch_generated' = batch_generated + 1
    /\ generated_count' = generated_count + 1
    /\ UNCHANGED _data_pool
RejectSample ==
    /\ rejected_count < MaxRejected
    /\ rejected_count' = rejected_count + 1
    /\ UNCHANGED <<_data_pool, batch_generated, generated_count>>

\* lines 139-146: append the entry and count it
AcceptSample(size) ==
    /\ _data_pool' = Append(_data_pool, PoolEntry(size))
    /\ batch_generated' = batch_generated + 1
    /\ generated_count' = generated_count + 1
    /\ UNCHANGED rejected_count

\* one iteration of the inner loop of the Compact Struct service on a sample
\* whose compressed size is `size`: reject it or append it
StructIterationUnchecked(size) ==
    /\ program = "struct"
    /\ initPc = "inner"
    /\ batch_generated < batch_target
    /\ samples' = Append(samples, size)
    /\ AcceptSample(size)
    /\ UNCHANGED <<program, _data_pool_size, initCalls, _pool_initialized, initPc, initBy,
                   batch_target, initError, userState, data_index, message_id,
                   posted, mainVars, codecVars>>
StructIteration(size) ==
    /\ program = "struct"
    /\ initPc = "inner"
    /\ batch_generated < batch_target
    /\ samples' = Append(samples, size)
    /\ IF TooLarge(size) THEN RejectSample ELSE AcceptSample(size)
    /\ UNCHANGED <<program, _data_pool_size, initCalls, _pool_initialized, initPc, initBy,
                   batch_target, initError, userState, data_index, message_id,
                   posted, mainVars, codecVars>>

\* one iteration of the inner loop of the MessagePack and CBOR services: the
\* sample is appended whatever its size
MapIterationChecked(size) ==
    /\ program \in { "msgpack", "cbor" }
    /\ initPc = "inner"
    /\ batch_generated < batch_target
    /\ samples' = Append(samples, size)
    /\ IF TooLarge(size) THEN RejectSample ELSE AcceptSample(size)
    /\ UNCHANGED <<program, _data_pool_size, initCalls, _pool_initialized, initPc, initBy,
                   batch_target, initError, userState, data_index,
                   message_id, posted, mainVars, codecVars>>
MapIteration(size) ==
    /\ program \in { "msgpack", "cbor" }
    /\ initPc = "inner"
    /\ batch_generated < batch_target
    /\ samples' = Append(samples, size)
    /\ AcceptSample(size)
    /\ UNCHANGED <<program, _data_pool_size, initCalls, _pool_initialized, initPc, initBy,
                   batch_target, initError, userState, data_index,
                   message_id, posted, mainVars, codecVars>>

\* the inner loop ends (batch_generated = batch_target); the progress line is logged
InnerLoopExit ==
    /\ initPc = "inner"
    /\ ~(batch_generated < batch_target)
    /\ initPc' = "outer"
    /\ UNCHANGED <<program, _data_pool_size, initCalls, _data_pool, _pool_initialized, initBy,
                   generated_count, rejected_count, batch_target, batch_generated,
                   samples, initError, userState, data_index, message_id, posted,
                   mainVars, codecVars>>

\* after the loop: avg_size divides by len(pool) (ZeroDivisionError on an empty
\* pool, which leaves on_start), then the summary is logged (rejected_count
\* with it), _pool_initialized = True and the call returns; the loop's
\* positions are cleared, rejected_count keeps the value that was logged
\* until the next call resets it
FinishInit ==
    /\ initPc = "finish"
    /\ IF Len(_data_pool) = 0
       THEN /\ initError' = TRUE
            /\ userState' = [userState EXCEPT ![initBy] = "failed"]
            /\ UNCHANGED _pool_initialized
       ELSE /\ _pool_initialized' = TRUE
            /\ userState' = [userState EXCEPT ![initBy] = "running"]
            /\ UNCHANGED initError
    /\ initPc' = "idle"
    /\ initBy' = 0
    /\ generated_count' = 0
    /\ batch_target' = 0
    /\ batch_generated' = 0
    /\ samples' = << >>
    /\ UNCHANGED <<program, _data_pool_size, initCalls, _data_pool, rejected_count, data_index,
                   message_id, posted, mainVars, codecVars>>

\* send_container_data of the Compact Struct service: read the entry at the
\* cursor, advance the cursor, skip an entry that is too large, else POST it
\* (an IndexError on an empty pool is caught and logged)
StructSend(u) ==
    /\ program = "struct"
    /\ initPc = "idle"
    /\ userState[u] = "running"
    /\ message_id[u] < MaxMessages
    /\ IF data_index[u] < Len(_data_pool)
       THEN LET data_item == _data_pool[data_index[u] + 1] IN
            /\ data_index' = [data_index EXCEPT ![u] = (data_index[u] + 1) % Len(_data_pool)]
            /\ IF TooLarge(data_item.size)
               THEN UNCHANGED <<message_id, posted>>
               ELSE /\ message_id' = [message_id EXCEPT ![u] = message_id[u] + 1]
                    /\ posted' = posted \cup { data_item.compressed }
       ELSE UNCHANGED <<data_index, message_id, posted>>
    /\ UNCHANGED <<program, _data_pool_size, initCalls, _data_pool, _pool_initialized, initPc,
                   initBy, generated_count, rejected_count, batch_target,
                   batch_generated, samples, initError, userState, mainVars, codecVars>>

\* send_container_data with a cursor that is advanced without the modulo
MapSend_NoWrap(u) ==
    /\ program \in { "msgpack", "cbor" }
    /\ initPc = "idle"
    /\ userState[u] = "running"
    /\ message_id[u] < MaxMessages
    /\ IF data_index[u] < Len(_data_pool)
       THEN LET data_item == _data_pool[data_index[u] + 1] IN
            /\ data_index' = [data_index EXCEPT ![u] = data_index[u] + 1]
            /\ message_id' = [message_id EXCEPT ![u] = message_id[u] + 1]
            /\ posted' = posted \cup { data_item.compressed }
       ELSE UNCHANGED <<data_index, message_id, posted>>
    /\ UNCHANGED <<program, _data_pool_size, initCalls, _data_pool, _pool_initialized, initPc,
                   initBy, generated_count, rejected_count, batch_target,
                   batch_generated, samples, initError, userState, mainVars, codecVars>>
\* send_container_data of the MessagePack and CBOR services: no size check
MapSend(u) ==
    /\ program \in { "msgpack", "cbor" }
    /\ initPc = "idle"
    /\ userState[u] = "running"
    /\ message_id[u] < MaxMessages
    /\ IF data_index[u] < Len(_data_pool)
       THEN LET data_item == _data_pool[data_index[u] + 1] IN
            /\ data_index' = [data_index EXCEPT ![u] = (data_index[u] + 1) % Len(_data_pool)]
            /\ message_id' = [message_id EXCEPT ![u] = message_id[u] + 1]
            /\ posted' = posted \cup { data_item.compressed }
       ELSE UNCHANGED <<data_index, message_id, posted>>
    /\ UNCHANGED <<program, _data_pool_size, initCalls, _data_pool, _pool_initialized, initPc,
                   initBy, generated_count, rejected_count, batch_target,
                   batch_generated, samples, initError, userState, mainVars, codecVars>>

MainIdle ==
    /\ mainPc = "idle" /\ data = [ keys |-> {} ] /\ args = [ preview |-> FALSE ]
    /\ serializedLen = -1 /\ raw = [ ok |-> FALSE ] /\ mainError = [ kind |-> "none" ]
    /\ saved = {} /\ serialSent = {} /\ printed = {}

SessionIdle ==
    records = << >> /\ result = << >> /\ binary_data = << >> /\ serialized_size = << >> /\ calls = << >>
CodecIdle == codecFn = "none" /\ codecArg = 0 /\ codecOut = 0 /\ SessionIdle

ServiceIdle ==
    /\ _data_pool_size = 0 /\ _data_pool = <<>> /\ _pool_initialized = FALSE
    /\ initPc = "idle" /\ initBy = 0
    /\ generated_count = 0 /\ rejected_count = 0
    /\ batch_target = 0 /\ batch_generated = 0
    /\ samples = << >> /\ initError = FALSE /\ initCalls = 0
    /\ userState = [ u \in Users |-> "new" ]
    /\ data_index = [ u \in Users |-> 0 ]
    /\ message_id = [ u \in Users |-> 0 ]
    /\ posted = {}

\* a worker process of one of the services, before any user has started
InitService ==
    /\ program \in Services
    /\ _data_pool_size \in 0..MaxPoolSize
    /\ _data_pool = <<>> /\ _pool_initialized = FALSE
    /\ initPc = "idle" /\ initBy = 0
    /\ generated_count = 0 /\ rejected_count = 0
    /\ batch_target = 0 /\ batch_generated = 0
    /\ samples = << >> /\ initError = FALSE /\ initCalls = 0
    /\ userState = [ u \in Users |-> "new" ]
    /\ data_index = [ u \in Users |-> 0 ]
    /\ message_id = [ u \in Users |-> 0 ]
    /\ posted = {}
    /\ MainIdle
    /\ CodecIdle

NextService ==
    \/ \E u \in Users : OnStart(u)
    \/ OuterLoop
    \/ \E size \in StructSampleSizes : StructIteration(size)
    \/ \E size \in MapSampleSizes(program) : MapIteration(size)
    \/ InnerLoopExit
    \/ FinishInit
    \/ \E u \in Users : StructSend(u)
    \/ \E u \in Users : MapSend(u)

SpecService == InitService /\ [][NextService]_vars

-----------------------------------------------------------------------------
(* Text and numbers *)

Digits == { "0", "1", "2", "3", "4", "5", "6", "7", "8", "9" }
Signs == { "-", "+" }

DigitValue(c) ==
    CASE c = "0" -> 0 [] c = "1" -> 1 [] c = "2" -> 2 [] c = "3" -> 3 [] c = "4" -> 4
      [] c = "5" -> 5 [] c = "6" -> 6 [] c = "7" -> 7 [] c = "8" -> 8 [] c = "9" -> 9

\* the first position >= i of s that holds no digit (Len(s) + 1 when the digits run to the end)
RECURSIVE DigitsEnd(_, _)
DigitsEnd(s, i) ==
    IF i <= Len(s) /\ s[i] \in Digits THEN DigitsEnd(s, i + 1) ELSE i

\* re.match of [-+]?\d+(?:\.\d+)? at position i of s: the position after the
\* match, or 0 when there is none.  The sign is taken when one is there, the
\* digits are taken greedily, and the fraction only when a digit follows the dot
MatchNumberNoSign(s, i) ==
    LET k == DigitsEnd(s, i) IN
    IF k = i THEN 0
    ELSE IF k <= Len(s) /\ s[k] = "." /\ DigitsEnd(s, k + 1) > k + 1
         THEN DigitsEnd(s, k + 1)
         ELSE k
MatchNumber(s, i) ==
    LET j == IF i <= Len(s) /\ s[i] \in Signs THEN i + 1 ELSE i
        k == DigitsEnd(s, j)
    IN  IF k = j THEN 0
        ELSE IF k <= Len(s) /\ s[k] = "." /\ DigitsEnd(s, k + 1) > k + 1
             THEN DigitsEnd(s, k + 1)
             ELSE k

\* re.findall: the non-overlapping matches, leftmost first, scanning from i
RECURSIVE FindAllNumbers(_, _)
FindAllNumbers(s, i) ==
    IF i > Len(s) THEN << >>
    ELSE LET e == MatchNumber(s, i) IN
         IF e = 0 THEN FindAllNumbers(s, i + 1)
         ELSE << SubSeq(s, i, e - 1) >> \o FindAllNumbers(s, e)

RECURSIVE DigitsToInt(_, _)
DigitsToInt(ds, acc) ==
    IF ds = << >> THEN acc ELSE DigitsToInt(Tail(ds), 10 * acc + DigitValue(Head(ds)))

RECURSIVE Normalise(_, _)
Normalise(m, e) ==
    IF e > 0 /\ m % 10 = 0 THEN Normalise(m \div 10, e - 1) ELSE [ m |-> m, e |-> e ]

IsDigit(c) == c \in Digits
IsDot(c) == c = "."

\* float(v) of a signed-decimal token: the number m / 10^e, in lowest terms
\* of the power of ten (float("2.0") = float("+2") = float("2"))
float(tok) ==
    LET neg == tok[1] = "-"
        digits == SelectSeq(tok, IsDigit)
        dot == Len(SelectSeq(tok, IsDot)) > 0
        fraction == IF dot THEN Len(tok) - (CHOOSE i \in 1..Len(tok) : tok[i] = ".") ELSE 0
        n == Normalise(DigitsToInt(digits, 0), fraction)
    IN  [ m |-> IF neg THEN 0 - n.m ELSE n.m, e |-> n.e ]

\* parse_acc: the numbers found in the text; an error unless there are 3
parse_acc_AtLeast3(acc_raw) ==
    LET nums == FindAllNumbers(acc_raw, 1) IN
    IF Len(nums) < 3
    THEN [ ok |-> FALSE,
           error |-> [ kind |-> "ValueError", what |-> "acc", found |-> Len(nums) ] ]
    ELSE [ ok |-> TRUE, value |-> [ i \in 1..3 |-> float(nums[i]) ] ]
parse_acc(acc_raw) ==
    LET nums == FindAllNumbers(acc_raw, 1) IN
    IF Len(nums) # 3
    THEN [ ok |-> FALSE,
           error |-> [ kind |-> "ValueError", what |-> "acc", found |-> Len(nums) ] ]
    ELSE [ ok |-> TRUE, value |-> [ i \in 1..Len(nums) |-> float(nums[i]) ] ]

\* tokens[1] seps[1] tokens[2] ... tokens[k], from token i on
RECURSIVE JoinFrom(_, _, _)
JoinFrom(tokens, seps, i) ==
    IF i > Len(tokens) THEN << >>
    ELSE (IF i > 1 THEN seps[i - 1] ELSE << >>) \o tokens[i] \o JoinFrom(tokens, seps, i + 1)

Join(tokens, seps) == JoinFrom(tokens, seps, 1)


-----------------------------------------------------------------------------
(* The simulated embedded MessagePack encoder (simulate_c_msgpack.py) *)

\* bytes([...]) raises ValueError unless every value is in 0..255
BytesOf(values) ==
    IF \A i \in DOMAIN values : values[i] \in 0..255
    THEN [ ok |-> TRUE, bytes |-> values ]
    ELSE [ ok |-> FALSE, error |-> [ kind |-> "ValueError", what |-> "byte range" ] ]

\* (x >> 8) & 0xFF and x & 0xFF
HighByte(x) == (x \div 256) % 256
LowByte(x) == x % 256

msgpack_encode_map_Fixmap16(count) ==
    IF count <= 16
    THEN BytesOf(<< 128 + count >>)
    ELSE BytesOf(<< 222, HighByte(count), LowByte(count) >>)
msgpack_encode_map(count) ==
    IF count <= 15
    THEN BytesOf(<< 128 + count >>)
    ELSE BytesOf(<< 222, HighByte(count), LowByte(count) >>)

-----------------------------------------------------------------------------
(* Text as bytes: str.encode('utf-8') and bytes.decode('utf-8')             *)
(*                                                                           *)
(* A character is a one-character string when it is printable ASCII, and    *)
(* the name of its code point otherwise ("U+0060", "U+00E9", "U+20AC").     *)

\* the printable ASCII characters, from code 32 to code 126
Ascii ==
    << " ", "!", "\"", "#", "$", "%", "&", "'", "(", ")", "*", "+", ",", "-", ".", "/" >>
    \o << "0", "1", "2", "3", "4", "5", "6", "7", "8", "9", ":", ";", "<", "=", ">", "?" >>
    \o << "@", "A", "B", "C", "D", "E", "F", "G", "H", "I", "J", "K", "L", "M", "N", "O" >>
    \o << "P", "Q", "R", "S", "T", "U", "V", "W", "X", "Y", "Z", "[", "\\", "]", "^", "_" >>
    \o << "U+0060", "a", "b", "c", "d", "e", "f", "g", "h", "i", "j", "k", "l", "m", "n", "o" >>
    \o << "p", "q", "r", "s", "t", "u", "v", "w", "x", "y", "z", "{", "|", "}", "~" >>

OrdOf == [ c \in { Ascii[i] : i \in DOMAIN Ascii } |-> 31 + CHOOSE i \in DOMAIN Ascii : Ascii[i] = c ]

\* the UTF-8 bytes of one character
Utf8Char(c) ==
    CASE c = "U+00E9" -> << 195, 169 >>
      [] c = "U+20AC" -> << 226, 130, 172 >>
      [] OTHER -> << OrdOf[c] >>

\* the UTF-8 bytes of the characters lo..hi of s
RECURSIVE Utf8Slice(_, _, _)
Utf8Slice(s, lo, hi) ==
    IF lo > hi THEN << >>
    ELSE IF lo = hi THEN Utf8Char(s[lo])
    ELSE LET mid == (lo + hi) \div 2 IN Utf8Slice(s, lo, mid) \o Utf8Slice(s, mid + 1, hi)

\* s.encode('utf-8'): each character's bytes, in order (a text of one-byte
\* characters has one byte per character)
encode_utf8(s) ==
    IF \A i \in DOMAIN s : Len(Utf8Char(s[i])) = 1
    THEN SubSeq([ i \in 1..Len(s) |-> Utf8Char(s[i])[1] ], 1, Len(s))
    ELSE Utf8Slice(s, 1, Len(s))

\* a continuation byte of UTF-8: 10xxxxxx
IsContinuation(b) == b >= 128 /\ b < 192

\* the character one UTF-8 sequence stands for: "invalid" when the sequence
\* is not well formed, "U+????" for a character that has no name here
DecodeChar(bs) ==
    IF Len(bs) = 1 /\ bs[1] < 128
    THEN IF bs[1] >= 32 /\ bs[1] <= 126 THEN Ascii[bs[1] - 31] ELSE "U+????"
    ELSE IF bs = << 195, 169 >> THEN "U+00E9"
    ELSE IF bs = << 226, 130, 172 >> THEN "U+20AC"
    ELSE IF \/ Len(bs) = 2 /\ bs[1] >= 194 /\ bs[1] < 224
            \/ Len(bs) = 3 /\ bs[1] >= 224 /\ bs[1] < 240
            \/ Len(bs) = 4 /\ bs[1] >= 240 /\ bs[1] < 245
         THEN "U+????"
         ELSE "invalid"

\* b.decode('utf-8'): the characters, or a UnicodeDecodeError
decode_utf8(b) ==
    IF \A i \in DOMAIN b : b[i] < 128
    THEN [ ok |-> TRUE,
           text |-> SubSeq([ i \in 1..Len(b) |-> DecodeChar(<< b[i] >>) ], 1, Len(b)) ]
    ELSE
    LET leads == SelectSeq([ i \in 1..Len(b) |-> i ], LAMBDA i : ~IsContinuation(b[i]))
        last(j) == IF j < Len(leads) THEN leads[j + 1] - 1 ELSE Len(b)
        chars == [ j \in 1..Len(leads) |-> DecodeChar(SubSeq(b, leads[j], last(j))) ]
    IN  IF \/ (Len(b) > 0 /\ IsContinuation(b[1]))
           \/ \E j \in 1..Len(chars) : chars[j] = "invalid"
        THEN [ ok |-> FALSE, error |-> [ kind |-> "UnicodeDecodeError" ] ]
        ELSE [ ok |-> TRUE, text |-> chars ]

\* msgpack_encode_string: the tag for the byte length of the text, then the bytes
msgpack_encode_string(s) ==
    LET content == encode_utf8(s)
        length == Len(content)
        tag == IF length <= 31 THEN BytesOf(<< 160 + length >>)
               ELSE IF length <= 255 THEN BytesOf(<< 217, length >>)
               ELSE BytesOf(<< 218, HighByte(length), LowByte(length) >>)
    IN  IF tag.ok THEN [ ok |-> TRUE, bytes |-> tag.bytes \o content ] ELSE tag

-----------------------------------------------------------------------------
(* Records and the Self-Describing Map encoders                             *)
(*                                                                           *)
(* A record is a Python dict: the sequence of its items [k, v] in iteration *)
(* (insertion) order, k a field name and v its text.                        *)

\* the characters of each field name
KeyText(k) ==
    CASE k = "msisdn" -> << "m", "s", "i", "s", "d", "n" >>
      [] k = "iso6346" -> << "i", "s", "o", "6", "3", "4", "6" >>
      [] k = "time" -> << "t", "i", "m", "e" >>
      [] k = "rssi" -> << "r", "s", "s", "i" >>
      [] k = "cgi" -> << "c", "g", "i" >>
      [] k = "ble-m" -> << "b", "l", "e", "-", "m" >>
      [] k = "bat-soc" -> << "b", "a", "t", "-", "s", "o", "c" >>
      [] k = "acc" -> << "a", "c", "c" >>
      [] k = "temperature" -> << "t", "e", "m", "p", "e", "r", "a", "t", "u", "r", "e" >>
      [] k = "humidity" -> << "h", "u", "m", "i", "d", "i", "t", "y" >>
      [] k = "pressure" -> << "p", "r", "e", "s", "s", "u", "r", "e" >>
      [] k = "door" -> << "d", "o", "o", "r" >>
      [] k = "gnss" -> << "g", "n", "s", "s" >>
      [] k = "latitude" -> << "l", "a", "t", "i", "t", "u", "d", "e" >>
      [] k = "longitude" -> << "l", "o", "n", "g", "i", "t", "u", "d", "e" >>
      [] k = "altitude" -> << "a", "l", "t", "i", "t", "u", "d", "e" >>
      [] k = "speed" -> << "s", "p", "e", "e", "d" >>
      [] k = "heading" -> << "h", "e", "a", "d", "i", "n", "g" >>
      [] k = "nsat" -> << "n", "s", "a", "t" >>
      [] k = "hdop" -> << "h", "d", "o", "p" >>
      [] k = "note" -> << "n", "o", "t", "e" >>

HasKey(d, k) == \E i \in DOMAIN d : d[i].k = k
Get(d, k) == d[CHOOSE i \in DOMAIN d : d[i].k = k].v

\* the literal record of generate_test_data
generate_test_data ==
    << [ k |-> "msisdn", v |-> << "3", "9", "3", "6", "0", "0", "5", "0", "4", "9", "2", "0" >> ],
       [ k |-> "iso6346", v |-> << "L", "M", "C", "U", "0", "9", "5", "4", "8", "2", "2" >> ],
       [ k |-> "time", v |-> << "3", "0", "0", "7", "2", "5", " ", "2", "2", "1", "1", "1", "7", ".", "8" >> ],
       [ k |-> "rssi", v |-> << "2", "1" >> ],
       [ k |-> "cgi", v |-> << "9", "9", "9", "-", "0", "1", "-", "1", "-", "3", "1", "D", "4", "1" >> ],
       [ k |-> "ble-m", v |-> << "1" >> ],
       [ k |-> "bat-soc", v |-> << "9", "3" >> ],
       [ k |-> "acc", v |-> << "-", "9", "7", "4", ".", "0", "7", "0", "0", " ", "-", "2", "5", ".", "1", "2", "7", "0", " ", "-", "4", "5", ".", "6", "7", "4", "4" >> ],
       [ k |-> "temperature", v |-> << "1", "8", ".", "3", "2" >> ],
       [ k |-> "humidity", v |-> << "7", "5", ".", "4", "4" >> ],
       [ k |-> "pressure", v |-> << "1", "0", "1", "6", ".", "7", "9", "3", "2" >> ],
       [ k |-> "door", v |-> << "D" >> ],
       [ k |-> "gnss", v |-> << "1" >> ],
       [ k |-> "latitude", v |-> << "3", "1", ".", "9", "2", "7", "7" >> ],
       [ k |-> "longitude", v |-> << "2", "8", ".", "6", "3", "7", "8" >> ],
       [ k |-> "altitude", v |-> << "5", "6", ".", "6", "2" >> ],
       [ k |-> "speed", v |-> << "0", ".", "8" >> ],
       [ k |-> "heading", v |-> << "3", "0", "2", ".", "0", "7" >> ],
       [ k |-> "nsat", v |-> << "1", "1" >> ],
       [ k |-> "hdop", v |-> << "5", ".", "0" >> ] >>

\* the order in which simulate_c_msgpack_compression lists the fields
SimFieldOrder ==
    << "msisdn", "iso6346", "time", "rssi", "cgi", "ble-m", "bat-soc",
       "acc", "temperature", "humidity", "pressure", "door", "gnss",
       "latitude", "longitude", "altitude", "speed", "heading", "nsat", "hdop" >>

\* the concatenation of the byte strings parts[lo..hi]
RECURSIVE ConcatBytes(_, _, _)
ConcatBytes(parts, lo, hi) ==
    IF lo > hi THEN << >>
    ELSE IF lo = hi THEN parts[lo]
    ELSE LET mid == (lo + hi) \div 2 IN ConcatBytes(parts, lo, mid) \o ConcatBytes(parts, mid + 1, hi)

\* an encoder of the values alone, in the listed order, without the keys
simulate_c_msgpack_compression_ValuesOnly(d) ==
    LET absent == SelectSeq(REQUIRED_FIELDS, LAMBDA k : ~HasKey(d, k)) IN
    IF absent # << >>
    THEN [ ok |-> FALSE, error |-> [ kind |-> "KeyError", what |-> absent[1] ] ]
    ELSE LET parts == [ i \in 1..Len(REQUIRED_FIELDS) |->
                          msgpack_encode_string(Get(d, REQUIRED_FIELDS[i])).bytes ]
         IN  [ ok |-> TRUE,
               bytes |-> msgpack_encode_map(20).bytes \o ConcatBytes(parts, 1, Len(parts)) ]
\* simulate_c_msgpack_compression: the map header for 20 entries, then the
\* name and the value of each listed field; data[name] raises KeyError for
\* the first listed name the record lacks
simulate_c_msgpack_compression(d) ==
    LET absent == SelectSeq(SimFieldOrder, LAMBDA k : ~HasKey(d, k)) IN
    IF absent # << >>
    THEN [ ok |-> FALSE, error |-> [ kind |-> "KeyError", what |-> absent[1] ] ]
    ELSE LET parts == [ i \in 1..Len(SimFieldOrder) |->
                          msgpack_encode_string(KeyText(SimFieldOrder[i])).bytes
                          \o msgpack_encode_string(Get(d, SimFieldOrder[i])).bytes ]
         IN  [ ok |-> TRUE,
               bytes |-> msgpack_encode_map(20).bytes \o ConcatBytes(parts, 1, Len(parts)) ]

\* the big-endian bytes of x, `width` of them
RECURSIVE BigEndian(_, _)
BigEndian(x, width) ==
    IF width = 0 THEN << >> ELSE BigEndian(x \div 256, width - 1) \o << x % 256 >>

\* msgpack.packb of a text: fixstr, str 8, str 16 or str 32, then the UTF-8 bytes
PackStr(text) ==
    LET content == encode_utf8(text)
        n == Len(content)
    IN  (IF n <= 31 THEN << 160 + n >>
         ELSE IF n <= 255 THEN << 217, n >>
         ELSE IF n <= 65535 THEN << 218 >> \o BigEndian(n, 2)
         ELSE << 219 >> \o BigEndian(n, 4)) \o content

\* msgpack.packb of a dict of texts: fixmap, map 16 or map 32, then each
\* item's key and value, in the iteration order of the dict
PackMap(d) ==
    LET n == Len(d)
        parts == [ i \in 1..n |-> PackStr(KeyText(d[i].k)) \o PackStr(d[i].v) ]
    IN  (IF n <= 15 THEN << 128 + n >>
         ELSE IF n <= 65535 THEN << 222 >> \o BigEndian(n, 2)
         ELSE << 223 >> \o BigEndian(n, 4)) \o ConcatBytes(parts, 1, n)

\* msgpack_compress: msgpack.packb(data, use_bin_type=True)
msgpack_compress(d) == [ ok |-> TRUE, bytes |-> PackMap(d) ]

\* the head of an item, with the size classes of the MessagePack strings
CborHead_MsgpackClasses(major, n) ==
    IF n < 32 THEN << 32 * major + n >>
    ELSE IF n < 256 THEN << 32 * major + 24, n >>
    ELSE IF n < 65536 THEN << 32 * major + 25 >> \o BigEndian(n, 2)
    ELSE << 32 * major + 26 >> \o BigEndian(n, 4)
\* the head of a CBOR item: the major type and its argument
CborHead(major, n) ==
    IF n < 24 THEN << 32 * major + n >>
    ELSE IF n < 256 THEN << 32 * major + 24, n >>
    ELSE IF n < 65536 THEN << 32 * major + 25 >> \o BigEndian(n, 2)
    ELSE << 32 * major + 26 >> \o BigEndian(n, 4)

\* cbor2.dumps of a text (major type 3) and of a dict of texts (major type
\* 5, the items in the iteration order of the dict)
CborText(text) == LET content == encode_utf8(text) IN CborHead(3, Len(content)) \o content
CborMap(d) ==
    LET parts == [ i \in 1..Len(d) |-> CborText(KeyText(d[i].k)) \o CborText(d[i].v) ]
    IN  CborHead(5, Len(d)) \o ConcatBytes(parts, 1, Len(d))

\* cbor_compress: cbor2.dumps(data)
cbor_compress(d) == [ ok |-> TRUE, bytes |-> CborMap(d) ]

\* the number the `width` big-endian bytes of b from position pos stand for
RECURSIVE FromBigEndian(_, _, _)
FromBigEndian(b, pos, width) ==
    IF width = 0 THEN 0
    ELSE 256 * FromBigEndian(b, pos, width - 1) + b[pos + width - 1]

DecodeError(what) == [ ok |-> FALSE, error |-> [ kind |-> "ValueError", what |-> what ] ]

\* the length a string item announces at position pos and where its bytes
\* start, in the grammar g ("msgpack": fixstr, str 8/16/32; "cbor": major
\* type 3); an item of another type is reported as such
StrHead(g, b, pos) ==
    IF pos > Len(b) THEN DecodeError("incomplete input")
    ELSE LET t == b[pos]
             fixed == IF g = "msgpack" THEN t >= 160 /\ t <= 191 ELSE t >= 96 /\ t <= 119
             base == IF g = "msgpack" THEN 160 ELSE 96
             width == IF g = "msgpack"
                      THEN (IF t = 217 THEN 1 ELSE IF t = 218 THEN 2 ELSE IF t = 219 THEN 4 ELSE 0)
                      ELSE (IF t = 120 THEN 1 ELSE IF t = 121 THEN 2 ELSE IF t = 122 THEN 4 ELSE 0)
         IN  IF fixed THEN [ ok |-> TRUE, n |-> t - base, start |-> pos + 1 ]
             ELSE IF width = 0 THEN DecodeError("not a string")
             ELSE IF pos + width > Len(b) THEN DecodeError("incomplete input")
             ELSE [ ok |-> TRUE, n |-> FromBigEndian(b, pos + 1, width), start |-> pos + 1 + width ]

\* one string item read at position pos: its text and the position after it
ReadStr(g, b, pos) ==
    LET Decoded(h, t) ==
            IF ~t.ok THEN t ELSE [ ok |-> TRUE, text |-> t.text, next |-> h.start + h.n ]
        Content(h) ==
            IF ~h.ok THEN h
            ELSE IF h.start + h.n - 1 > Len(b) THEN DecodeError("incomplete input")
            ELSE Decoded(h, decode_utf8(SubSeq(b, h.start, h.start + h.n - 1)))
    IN  Content(StrHead(g, b, pos))

\* the entry count a map announces at position pos and where its items start
MapHead(g, b, pos) ==
    IF pos > Len(b) THEN DecodeError("incomplete input")
    ELSE LET t == b[pos]
             fixed == IF g = "msgpack" THEN t >= 128 /\ t <= 143 ELSE t >= 160 /\ t <= 183
             base == IF g = "msgpack" THEN 128 ELSE 160
             width == IF g = "msgpack"
                      THEN (IF t = 222 THEN 2 ELSE IF t = 223 THEN 4 ELSE 0)
                      ELSE (IF t = 184 THEN 1 ELSE IF t = 185 THEN 2 ELSE IF t = 186 THEN 4 ELSE 0)
         IN  IF fixed THEN [ ok |-> TRUE, n |-> t - base, start |-> pos + 1 ]
             ELSE IF width = 0 THEN DecodeError("not a map")
             ELSE IF pos + width > Len(b) THEN DecodeError("incomplete input")
             ELSE [ ok |-> TRUE, n |-> FromBigEndian(b, pos + 1, width), start |-> pos + 1 + width ]

\* `count` key/value items read from position pos: the items in wire order
RECURSIVE ReadItems(_, _, _, _)
ReadItems(g, b, pos, count) ==
    IF count = 0 THEN [ ok |-> TRUE, items |-> << >>, next |-> pos ]
    ELSE LET Rest(key, val, rest) ==
                 IF ~rest.ok THEN rest
                 ELSE [ ok |-> TRUE,
                        items |-> << [ k |-> key.text, v |-> val.text ] >> \o rest.items,
                        next |-> rest.next ]
             Value(key, val) ==
                 IF ~val.ok THEN val ELSE Rest(key, val, ReadItems(g, b, val.next, count - 1))
             Key(key) == IF ~key.ok THEN key ELSE Value(key, ReadStr(g, b, key.next))
         IN  Key(ReadStr(g, b, pos))

\* msgpack.unpackb(b, raw=False) and cbor2.loads(b) of a map of strings: the
\* items in wire order, an error when the bytes are not one such map
Unpack(g, b) ==
    LET Items(r) ==
            IF ~r.ok THEN r
            ELSE IF r.next # Len(b) + 1 THEN DecodeError("extra data")
            ELSE [ ok |-> TRUE, items |-> r.items ]
        Map(h) == IF ~h.ok THEN h ELSE Items(ReadItems(g, b, h.start, h.n))
    IN  Map(MapHead(g, b, 1))
msgpack_unpackb(b) == Unpack("msgpack", b)
cbor_loads(b) == Unpack("cbor", b)

\* dict equality (`decompressed == sample_data`): the same keys with the
\* same values, whatever the iteration order
SameMapping(items, d) ==
    /\ Len(items) = Len(d)
    /\ { << items[i].k, items[i].v >> : i \in DOMAIN items }
         = { << KeyText(d[i].k), d[i].v >> : i \in DOMAIN d }

\* test_compression of the MessagePack and CBOR services: the sample is
\* encoded, then decoded and compared with the sample; a decoder's exception
\* is caught and reported
test_compression(g, d) ==
    LET Report(packed, decompressed) ==
            [ ok |-> TRUE,
              size |-> Len(packed),
              decompression |-> IF decompressed.ok THEN "SUCCESS" ELSE "FAILED",
              matches |-> IF ~decompressed.ok THEN "none"
                          ELSE IF SameMapping(decompressed.items, d) THEN "YES" ELSE "NO" ]
        Decompress(packed) == Report(packed, Unpack(g, packed))
    IN  Decompress(IF g = "cbor" THEN cbor_compress(d).bytes ELSE msgpack_compress(d).bytes)

\* the comparison at the end of main of simulate_c_msgpack.py: the record is
\* encoded by the simulation, then by msgpack.packb when the library can be
\* imported, and the two lengths are compared
main_comparison(d, available) ==
    LET Verdict(msgpack_data, python_msgpack) ==
            [ ok |-> TRUE,
              c_size |-> Len(msgpack_data.bytes),
              verdict |-> IF Len(msgpack_data.bytes) = Len(python_msgpack.bytes)
                          THEN "matches" ELSE "differs" ]
        Compare(msgpack_data) ==
            IF ~msgpack_data.ok THEN msgpack_data
            ELSE IF ~available
            THEN [ ok |-> TRUE, c_size |-> Len(msgpack_data.bytes), verdict |-> "not available" ]
            ELSE Verdict(msgpack_data, msgpack_compress(d))
    IN  Compare(simulate_c_msgpack_compression(d))

-----------------------------------------------------------------------------
(* The Positional (protobuf) encoder: encoder_to_astrocast.py               *)
(*                                                                           *)
(* The input mapping is [keys, acc, malformed]: the names it holds, the     *)
(* text of its acc value, and the integer and float fields whose text does  *)
(* not parse.  pb.SerializeToString is a library call: the length of its    *)
(* output is an input of serialize.                                          *)

IntFields == << "rssi", "ble-m", "bat-soc", "gnss", "nsat" >>
FloatFields == << "temperature", "humidity", "pressure", "latitude", "longitude",
                  "altitude", "speed", "heading", "hdop" >>
StringFields == << "msisdn", "iso6346", "time", "cgi", "door" >>

NoError == [ kind |-> "none" ]
NoBytes == [ ok |-> FALSE ]

\* validate_fields: the required names the mapping lacks, in the order of
\* REQUIRED_FIELDS; a ValueError naming them when there are any.  The result
\* carries the mapping as the call leaves it (d: the call writes nothing)
MissingOf(d) == SelectSeq(REQUIRED_FIELDS, LAMBDA k : k \notin d.keys)
validate_fields_FirstTen(d) ==
    LET missing == SelectSeq(SubSeq(REQUIRED_FIELDS, 1, 10), LAMBDA k : k \notin d.keys) IN
    IF missing # << >>
    THEN [ ok |-> FALSE, d |-> d,
           error |-> [ kind |-> "ValueError", what |-> "missing", fields |-> missing ] ]
    ELSE [ ok |-> TRUE, d |-> d ]
validate_fields(d) ==
    LET missing == MissingOf(d) IN
    IF missing # << >>
    THEN [ ok |-> FALSE, d |-> d,
           error |-> [ kind |-> "ValueError", what |-> "missing", fields |-> missing ] ]
    ELSE [ ok |-> TRUE, d |-> d ]

\* the first of `steps` that fails, or [ok |-> TRUE]
RECURSIVE FirstFailure(_)
FirstFailure(steps) ==
    IF steps = << >> THEN [ ok |-> TRUE ]
    ELSE IF ~Head(steps).ok THEN Head(steps) ELSE FirstFailure(Tail(steps))

\* data[k] raises KeyError when the mapping lacks k
Lookup(d, k) ==
    IF k \in d.keys THEN [ ok |-> TRUE ]
    ELSE [ ok |-> FALSE, error |-> [ kind |-> "KeyError", what |-> k ] ]

\* _int(data[k]) and _float(data[k]): int() and float() raise a ValueError
\* that quotes the text, not the field
ParseScalar(d, k, fn) ==
    IF k \notin d.keys THEN Lookup(d, k)
    ELSE IF k \in d.malformed
         THEN [ ok |-> FALSE, error |-> [ kind |-> "ValueError", what |-> fn ] ]
         ELSE [ ok |-> TRUE ]

ParseAccField(d) ==
    IF "acc" \notin d.keys THEN Lookup(d, "acc") ELSE parse_acc(d.acc)

\* json_to_protobuf: the assignments in source order; the first one that
\* raises ends the call
json_to_protobuf(d) ==
    FirstFailure(
        [ i \in 1..Len(StringFields) |-> Lookup(d, StringFields[i]) ]
        \o [ i \in 1..Len(IntFields) |-> ParseScalar(d, IntFields[i], "int") ]
        \o << ParseAccField(d) >>
        \o [ i \in 1..Len(FloatFields) |-> ParseScalar(d, FloatFields[i], "float") ])

\* serialize, given the length of pb.SerializeToString(): the bytes, or a
\* ValueError that reports the length and the limit
serialize_Truncating(d, rawLen) ==
    LET pb == json_to_protobuf(d) IN
    IF ~pb.ok THEN [ ok |-> FALSE, error |-> pb.error ]
    ELSE [ ok |-> TRUE, len |-> Min(rawLen, MAX_PAYLOAD_SIZE - 1) ]
serialize_Inclusive(d, rawLen) ==
    LET pb == json_to_protobuf(d) IN
    IF ~pb.ok THEN [ ok |-> FALSE, error |-> pb.error ]
    ELSE IF rawLen > MAX_PAYLOAD_SIZE
         THEN [ ok |-> FALSE,
                error |-> [ kind |-> "ValueError", what |-> "too large",
                            actual |-> rawLen, limit |-> MAX_PAYLOAD_SIZE ] ]
         ELSE [ ok |-> TRUE, len |-> rawLen ]
serialize(d, rawLen) ==
    LET pb == json_to_protobuf(d) IN
    IF ~pb.ok THEN [ ok |-> FALSE, error |-> pb.error ]
    ELSE IF rawLen >= MAX_PAYLOAD_SIZE
         THEN [ ok |-> FALSE,
                error |-> [ kind |-> "ValueError", what |-> "too large",
                            actual |-> rawLen, limit |-> MAX_PAYLOAD_SIZE ] ]
         ELSE [ ok |-> TRUE, len |-> rawLen ]

\* bytes_to_hex: two hexadecimal digits for each byte
bytes_to_hex(b) == [ chars |-> 2 * b.len ]


\* at most this many required names are missing from an input mapping
MaxMissing == 2
Acc1 == << "-", "9", "9", "3", ".", "9" >>
Acc2 == << "-", "2", "7", ".", "1" >>
Acc3 == << "-", "5", "2", ".", "0" >>
PipelineAccTexts ==
    { Acc1 \o << " " >> \o Acc2 \o << " " >> \o Acc3,
      Acc1 \o << "," >> \o Acc2 \o << "," >> \o Acc3,
      Acc1 \o << "," >> \o Acc2 \o << " " >> \o Acc3,
      Acc1 \o Acc2 \o Acc3,
      Acc1 \o << " " >> \o Acc2 }

RequiredSet == Range(REQUIRED_FIELDS)
ScalarFields == Range(IntFields) \cup Range(FloatFields)

\* the inputs of main: mappings that lack up to MaxMissing required names
\* (their other values well formed), and complete mappings whose acc text
\* and scalar texts vary; either may hold a key that is not required
PipelineInputs ==
    { [ keys |-> (RequiredSet \ missing) \cup extra,
        acc |-> Acc1 \o << " " >> \o Acc2 \o << " " >> \o Acc3,
        malformed |-> {} ] :
        missing \in { Range(f) : f \in [ 1..MaxMissing -> RequiredSet ] },
        extra \in { {}, { "note" } } }
    \cup
    { [ keys |-> RequiredSet \cup extra, acc |-> a, malformed |-> bad ] :
        a \in PipelineAccTexts,
        bad \in { {} } \cup { { k } : k \in ScalarFields },
        extra \in { {}, { "note" } } }

SerializedSizes == (MAX_PAYLOAD_SIZE - SizeSpread)..(MAX_PAYLOAD_SIZE + SizeSpread)

InitPositional ==
    /\ program = "positional"
    /\ mainPc = "validate"
    /\ data \in PipelineInputs
    /\ args \in [ preview : BOOLEAN, save : BOOLEAN, serial : BOOLEAN ]
    /\ serializedLen = -1
    /\ raw = NoBytes
    /\ mainError = NoError
    /\ saved = {} /\ serialSent = {} /\ printed = {}
    /\ ServiceIdle
    /\ CodecIdle

\* main, line 164: validate_fields(data)
ValidateStep ==
    /\ program = "positional"
    /\ mainPc = "validate"
    /\ LET v == validate_fields(data) IN
       /\ data' = v.d
       /\ IF v.ok
          THEN mainPc' = "serialize" /\ UNCHANGED mainError
          ELSE mainPc' = "failed" /\ mainError' = v.error
    /\ UNCHANGED <<program, args, serializedLen, raw, saved, serialSent, printed,
                   serviceVars, codecVars>>

\* main, lines 166-171: raw = serialize(data), hex_payload, the preview
SerializeStep ==
    /\ program = "positional"
    /\ mainPc = "serialize"
    /\ \E n \in SerializedSizes :
         LET r == serialize(data, n) IN
         /\ serializedLen' = IF json_to_protobuf(data).ok THEN n ELSE -1
         /\ IF r.ok
            THEN /\ raw' = [ ok |-> TRUE, len |-> r.len ]
                 /\ mainPc' = "save"
                 /\ UNCHANGED mainError
            ELSE /\ mainError' = r.error
                 /\ mainPc' = "failed"
                 /\ UNCHANGED raw
    /\ UNCHANGED <<program, data, args, saved, serialSent, printed, serviceVars, codecVars>>

\* main, lines 173-175: save_artifacts(raw, args.out) when --save is given
SaveStep ==
    /\ program = "positional"
    /\ mainPc = "save"
    /\ IF args.save
       THEN saved' = saved \cup { raw.len }
       ELSE UNCHANGED saved
    /\ mainPc' = "serial"
    /\ UNCHANGED <<program, data, args, serializedLen, raw, mainError, serialSent, printed,
                   serviceVars, codecVars>>

\* main, lines 177-181: send_over_serial(hex_payload, ...) when --serial is
\* given; it raises RuntimeError when pyserial cannot be imported
SerialStep ==
    /\ program = "positional"
    /\ mainPc = "serial"
    /\ IF args.serial
       THEN \E pyserial \in BOOLEAN :
              IF pyserial
              THEN /\ serialSent' = serialSent \cup { bytes_to_hex(raw).chars }
                   /\ mainPc' = "print"
                   /\ UNCHANGED mainError
              ELSE /\ mainError' = [ kind |-> "RuntimeError", what |-> "pyserial" ]
                   /\ mainPc' = "failed"
                   /\ UNCHANGED serialSent
       ELSE /\ mainPc' = "print"
            /\ UNCHANGED <<serialSent, mainError>>
    /\ UNCHANGED <<program, data, args, serializedLen, raw, saved, printed,
                   serviceVars, codecVars>>

\* main, lines 183-184: print the hex payload when neither --save nor --serial
PrintStep ==
    /\ program = "positional"
    /\ mainPc = "print"
    /\ IF ~args.save /\ ~args.serial
       THEN printed' = printed \cup { bytes_to_hex(raw).chars }
       ELSE UNCHANGED printed
    /\ mainPc' = "done"
    /\ UNCHANGED <<program, data, args, serializedLen, raw, mainError, saved, serialSent,
                   serviceVars, codecVars>>

NextPositional ==
    \/ ValidateStep
    \/ SerializeStep
    \/ SaveStep
    \/ SerialStep
    \/ PrintStep

SpecPositional == InitPositional /\ [][NextPositional]_vars

-----------------------------------------------------------------------------
(* The Compact Struct encoder: convert_to_typed_data and                    *)
(* struct_zlib_compress of Struct_Zlib_Service/locust_sender.py             *)
(*                                                                           *)
(* The buffer struct.pack builds is a sequence of cells, one per byte: a    *)
(* cell of kind "byte" holds the byte's value, a cell of kind "f32" stands  *)
(* for byte `part` of the 4-byte big-endian IEEE encoding of a number.      *)

\* int(text) of a signed run of digits; any other text raises a ValueError
\* whose message quotes the text
int(text) ==
    LET body == IF text # << >> /\ text[1] \in Signs THEN Tail(text) ELSE text IN
    IF body # << >> /\ \A i \in DOMAIN body : body[i] \in Digits
    THEN [ ok |-> TRUE,
           value |-> IF text[1] = "-" THEN 0 - DigitsToInt(body, 0) ELSE DigitsToInt(body, 0) ]
    ELSE [ ok |-> FALSE, error |-> [ kind |-> "ValueError", what |-> "int", text |-> text ] ]

\* float(text) of a whole text: a signed decimal gives its number; any
\* other text raises a ValueError whose message quotes the text
float_of_text(text) ==
    IF text # << >> /\ MatchNumber(text, 1) = Len(text) + 1
    THEN [ ok |-> TRUE, value |-> float(text) ]
    ELSE [ ok |-> FALSE, error |-> [ kind |-> "ValueError", what |-> "float", text |-> text ] ]

\* text.split(): the runs of characters between runs of white space
IsSpace(c) == c = " "
RECURSIVE SplitFrom(_, _)
SplitFrom(s, i) ==
    IF i > Len(s) THEN << >>
    ELSE IF IsSpace(s[i]) THEN SplitFrom(s, i + 1)
    ELSE LET stop == CHOOSE j \in (i + 1)..(Len(s) + 1) :
                       /\ j = Len(s) + 1 \/ IsSpace(s[j])
                       /\ \A m \in i..(j - 1) : ~IsSpace(s[m])
         IN  << SubSeq(s, i, stop - 1) >> \o SplitFrom(s, stop)
split(s) == SplitFrom(s, 1)

\* string_data[k]: the text of the field, a KeyError when the record lacks it
Field(d, k) ==
    IF HasKey(d, k) THEN [ ok |-> TRUE, value |-> Get(d, k) ]
    ELSE [ ok |-> FALSE, error |-> [ kind |-> "KeyError", what |-> k ] ]
IntField(d, k) == IF HasKey(d, k) THEN int(Get(d, k)) ELSE Field(d, k)
FloatField(d, k) == IF HasKey(d, k) THEN float_of_text(Get(d, k)) ELSE Field(d, k)
\* [float(x) for x in string_data["acc"].split()]
AccField(d) ==
    LET Values(parsed, failure) ==
            IF ~failure.ok THEN failure
            ELSE [ ok |-> TRUE, value |-> [ i \in 1..Len(parsed) |-> parsed[i].value ] ]
        Parsed(parsed) == Values(parsed, FirstFailure(parsed))
        Tokens(tokens) == Parsed([ i \in 1..Len(tokens) |-> float_of_text(tokens[i]) ])
    IN  IF ~HasKey(d, "acc") THEN Field(d, "acc") ELSE Tokens(split(Get(d, "acc")))

\* convert_to_typed_data: the entries of the dict literal are evaluated in
\* source order and the first one that raises ends the call
convert_to_typed_data(string_data) ==
    LET At(fields, values, k) == values[CHOOSE i \in DOMAIN fields : fields[i] = k].value
        Typed(texts, ints, floats, vector, failure) ==
            IF ~failure.ok THEN failure
            ELSE [ ok |-> TRUE,
                   text |-> [ k \in Range(StringFields) |-> At(StringFields, texts, k) ],
                   int |-> [ k \in Range(IntFields) |-> At(IntFields, ints, k) ],
                   float |-> [ k \in Range(FloatFields) |-> At(FloatFields, floats, k) ],
                   acc |-> vector.value ]
        Entries(texts, ints, floats, vector) ==
            Typed(texts, ints, floats, vector,
                  FirstFailure(texts \o ints \o floats \o << vector >>))
    IN  Entries([ i \in 1..Len(StringFields) |-> Field(string_data, StringFields[i]) ],
                [ i \in 1..Len(IntFields) |-> IntField(string_data, IntFields[i]) ],
                [ i \in 1..Len(FloatFields) |-> FloatField(string_data, FloatFields[i]) ],
                AccField(string_data))

\* the order in which struct_zlib_compress lays the fields out
field_order ==
    << "msisdn", "iso6346", "time", "rssi", "cgi", "ble-m", "bat-soc",
       "acc", "temperature", "humidity", "pressure", "door", "gnss",
       "latitude", "longitude", "altitude", "speed", "heading", "nsat", "hdop" >>

ByteCell(n) == [ kind |-> "byte", part |-> 0, value |-> n ]
ByteCells(b) == [ i \in 1..Len(b) |-> ByteCell(b[i]) ]
\* the cells of a number packed as a double ('d'), eight bytes
FloatCells_Double(x) == [ i \in 1..8 |-> [ kind |-> "f32", part |-> i, value |-> x ] ]
\* the cells of a number packed as 'f', four bytes
FloatCells(x) == [ i \in 1..4 |-> [ kind |-> "f32", part |-> i, value |-> x ] ]
StructError(what) == [ ok |-> FALSE, error |-> [ kind |-> "struct.error", what |-> what ] ]

\* the values of a field, the length of a text counted in characters
FieldValues_CharacterCount(typed_data, field) ==
    IF field \in Range(StringFields)
    THEN << [ format |-> "H", value |-> Len(typed_data.text[field]) ] >>
    ELSE IF field \in Range(IntFields)
    THEN << [ format |-> "B", value |-> typed_data.int[field] ] >>
    ELSE IF field = "acc"
    THEN [ i \in 1..Min(3, Len(typed_data.acc)) |-> [ format |-> "f", value |-> typed_data.acc[i] ] ]
    ELSE << [ format |-> "f", value |-> typed_data.float[field] ] >>

\* the values one field of field_order gives struct.pack, with their formats
FieldValues(typed_data, field) ==
    IF field \in Range(StringFields)
    THEN << [ format |-> "H", value |-> Len(encode_utf8(typed_data.text[field])) ] >>
    ELSE IF field \in Range(IntFields)
    THEN << [ format |-> "B", value |-> typed_data.int[field] ] >>
    ELSE IF field = "acc"
    THEN [ i \in 1..Min(3, Len(typed_data.acc)) |-> [ format |-> "f", value |-> typed_data.acc[i] ] ]
    ELSE << [ format |-> "f", value |-> typed_data.float[field] ] >>

\* the bytes of one value, 'H' and 'B' keeping the low bits of a value out of range
PackValue_Wrapping(item) ==
    CASE item.format = "H" -> [ ok |-> TRUE, cells |-> ByteCells(BigEndian(item.value % 65536, 2)) ]
      [] item.format = "B" -> [ ok |-> TRUE, cells |-> ByteCells(<< item.value % 256 >>) ]
      [] item.format = "f" -> [ ok |-> TRUE, cells |-> FloatCells(item.value) ]
\* the bytes struct.pack gives one value; 'H' takes 0..65535 and 'B' 0..255
PackValue(item) ==
    CASE item.format = "H" ->
           IF item.value \in 0..65535 THEN [ ok |-> TRUE, cells |-> ByteCells(BigEndian(item.value, 2)) ]
           ELSE StructError("'H' format requires 0 <= number <= 65535")
      [] item.format = "B" ->
           IF item.value \in 0..255 THEN [ ok |-> TRUE, cells |-> ByteCells(<< item.value >>) ]
           ELSE StructError("ubyte format requires 0 <= number <= 255")
      [] item.format = "f" -> [ ok |-> TRUE, cells |-> FloatCells(item.value) ]

\* struct_zlib_compress up to the buffer it hands zlib.compress: the record is
\* typed, the values are gathered in field_order (of acc the first three),
\* struct.pack needs as many values as the format has codes (22), and the
\* bytes of the five texts follow the packed block
struct_zlib_compress(d) ==
    LET Buffer(typed_data, values, packed, failure) ==
            IF Len(values) # 22 THEN StructError("pack expected 22 items for packing")
            ELSE IF ~failure.ok THEN failure
            ELSE [ ok |-> TRUE,
                   binary_data |->
                       ConcatBytes([ i \in 1..Len(packed) |-> packed[i].cells ], 1, Len(packed))
                       \o ConcatBytes([ i \in 1..Len(StringFields) |->
                                          ByteCells(encode_utf8(typed_data.text[StringFields[i]])) ],
                                      1, Len(StringFields)) ]
        Pack(typed_data, values, packed) == Buffer(typed_data, values, packed, FirstFailure(packed))
        Gather(typed_data, values) ==
            Pack(typed_data, values, [ i \in 1..Len(values) |-> PackValue(values[i]) ])
        Typed(typed_data) ==
            IF ~typed_data.ok THEN typed_data
            ELSE Gather(typed_data,
                        ConcatBytes([ i \in 1..Len(field_order) |->
                                        FieldValues(typed_data, field_order[i]) ],
                                    1, Len(field_order)))
    IN  Typed(convert_to_typed_data(d))

\* zlib.compress(binary_data, level=9) is a library call; of its output the
\* model keeps the length.  The library promises at most compressBound(n)
\* bytes for n bytes of input, and a stream is never shorter than its 2-byte
\* header, one block and the 4-byte checksum.
compressBound(n) == n + (n \div 4096) + (n \div 16384) + (n \div 33554432) + 13
ZlibSizes(n) == 8..compressBound(n)

\* test_compression of the Compact Struct service on one sample, zlib giving
\* compressedLen bytes: the exception of struct_zlib_compress is not caught
struct_test_compression(sample_data, compressedLen) ==
    LET Report(encoded) ==
            IF ~encoded.ok THEN encoded
            ELSE [ ok |-> TRUE,
                   actual_bytes |-> compressedLen,
                   passes_size_check |-> compressedLen < MAX_PAYLOAD_SIZE ]
    IN  Report(struct_zlib_compress(sample_data))

-----------------------------------------------------------------------------
(* The pure codec functions, each applied to one input *)

\* entry counts explored for msgpack_encode_map: 0..MaxCount
MaxCount == 65536
\* an accelerometer text holds at most this many numeric tokens
MaxAccTokens == 4

AccTokens ==
    { << "-", "9", ".", "5" >>, << "7" >>, << "+", "2", ".", "0" >> }
AccSeparators ==
    { << " " >>, << "," >>, << ",", " " >>, << >> }

\* an accelerometer text built from tokens and the separators between them
AccInput(t, sp) == [ tokens |-> t, seps |-> sp, text |-> Join(t, sp) ]

\* texts explored for msgpack_encode_string: a fill character repeated, of
\* byte lengths 0, 1 and around the boundaries of the tag classes, up to
\* MaxStringBytes
MaxStringBytes == 65536
TagBoundaries == { 31, 255, 65535 }
StringByteLens ==
    { n \in { 0, 1 } \cup UNION { { b - 1, b, b + 1, b + 2 } : b \in TagBoundaries } :
        n <= MaxStringBytes }
FillChars == { "A", "U+00E9" }
Repeat(c, n) == SubSeq([ i \in 1..n |-> c ], 1, n)
StringInput(c, n) == [ fill |-> c, count |-> n ]
StringText(arg) == Repeat(arg.fill, arg.count)

ParseAccInput ==
    /\ codecFn = "parse_acc"
    /\ \E k \in 0..MaxAccTokens :
         \E t \in [ 1..k -> AccTokens ], sp \in [ 1..(k - 1) -> AccSeparators ] :
           codecArg = AccInput(t, sp)

EncodeMapInput == codecFn = "msgpack_encode_map" /\ codecArg \in 0..MaxCount

EncodeStringInput ==
    /\ codecFn = "msgpack_encode_string"
    /\ \E c \in FillChars : \E n \in StringByteLens :
         /\ n % Len(Utf8Char(c)) = 0
         /\ codecArg = StringInput(c, n \div Len(Utf8Char(c)))

\* records explored: the literal record of generate_test_data with at most
\* one change, its items in one of three iteration orders
RecordOrders == { "fixed", "swapped", "reversed" }
Reorder(d, order) ==
    CASE order = "fixed" -> d
      [] order = "swapped" ->
           [ i \in 1..Len(d) |-> IF i = Len(d) - 1 THEN d[Len(d)]
                                 ELSE IF i = Len(d) THEN d[Len(d) - 1] ELSE d[i] ]
      [] order = "reversed" -> [ i \in 1..Len(d) |-> d[Len(d) + 1 - i] ]

\* the fields that may hold a text of MaxStringBytes bytes
LongFields == { "msisdn", "hdop" }

\* changes that give a text a length on either side of a size class of the
\* MessagePack and CBOR string heads
ClassLengths ==
    [ len23 |-> 23, len24 |-> 24, len31 |-> 31, len32 |-> 32, len255 |-> 255, len256 |-> 256 ]

\* the value a change gives a field
ChangedValue(change) ==
    CASE change = "long" -> Repeat("A", MaxStringBytes)
      [] change = "accent" -> << "U+00E9", "t", "U+00E9" >>
      [] change = "malformed" -> << "a", "b", "c" >>
      [] change = "negative" -> << "-", "7", "0" >>
      [] change = "big" -> << "3", "0", "0" >>
      [] change = "zero" -> << "0" >>
      [] change = "minusOne" -> << "-", "1" >>
      [] change = "byteMax" -> << "2", "5", "5" >>
      [] change = "byteOver" -> << "2", "5", "6" >>
      [] change = "acc2" -> Acc1 \o << " " >> \o Acc2
      [] change = "acc4" -> Acc1 \o << " " >> \o Acc2 \o << " " >> \o Acc3 \o << " " >> \o Acc2
      [] change = "accComma" -> Acc1 \o << "," >> \o Acc2 \o << "," >> \o Acc3
      [] change = "accCommaSpace" -> Acc1 \o << ",", " " >> \o Acc2 \o << ",", " " >> \o Acc3
      [] change = "accMixed" -> Acc1 \o << "," >> \o Acc2 \o << " " >> \o Acc3
      [] change = "accNoSep" -> Acc1 \o Acc2 \o Acc3
      [] change \in DOMAIN ClassLengths -> Repeat("A", ClassLengths[change])

NoEdit == [ field |-> "none", change |-> "none" ]
ShortEdits ==
    { NoEdit, [ field |-> "note", change |-> "extra" ], [ field |-> "all", change |-> "empty" ] }
    \cup [ field : Range(SimFieldOrder), change : { "missing", "malformed", "accent" } ]
    \cup [ field : Range(IntFields),
           change : { "negative", "big", "zero", "minusOne", "byteMax", "byteOver" } ]
    \cup [ field : { "acc" },
           change : { "acc2", "acc4", "accComma", "accCommaSpace", "accMixed", "accNoSep" } ]
    \cup [ field : { "cgi" }, change : DOMAIN ClassLengths ]
LongEdits == [ field : LongFields, change : { "long" } ]

ApplyEdit(d, edit) ==
    CASE edit.change = "none" -> d
      [] edit.change = "extra" -> Append(d, [ k |-> "note", v |-> << "x" >> ])
      [] edit.change = "missing" -> SelectSeq(d, LAMBDA item : item.k # edit.field)
      [] edit.change = "empty" -> [ i \in 1..Len(d) |-> [ k |-> d[i].k, v |-> << >> ] ]
      [] OTHER -> [ i \in 1..Len(d) |->
                      IF d[i].k = edit.field
                      THEN [ k |-> d[i].k, v |-> ChangedValue(edit.change) ] ELSE d[i] ]

RecordInput(order, edit) == [ order |-> order, edit |-> edit ]
RecordOf(arg) == Reorder(ApplyEdit(generate_test_data, arg.edit), arg.order)

\* the encoders of the Self-Describing Map, applied to one record
MapEncoders == { "simulate_c_msgpack_compression", "msgpack_compress", "cbor_compress" }
MapEncoderInput ==
    /\ codecFn \in MapEncoders
    /\ \E order \in RecordOrders, edit \in ShortEdits : codecArg = RecordInput(order, edit)

\* test_compression and the comparison of main, applied to one record
RoundTrips == { "test_compression_msgpack", "test_compression_cbor" }
RoundTripInput ==
    /\ codecFn \in RoundTrips
    /\ \E order \in RecordOrders, edit \in ShortEdits \cup LongEdits :
         codecArg = RecordInput(order, edit)
ComparisonInput ==
    /\ codecFn = "main_comparison"
    /\ \E order \in RecordOrders, edit \in ShortEdits \cup LongEdits, available \in BOOLEAN :
         codecArg = [ order |-> order, edit |-> edit, available |-> available ]

\* the mapping json_to_protobuf sees in a record: its names, the text of its
\* acc, and the integer and float fields whose text int() or float() rejects
AsMapping(d) ==
    [ keys |-> { d[i].k : i \in DOMAIN d },
      acc |-> IF HasKey(d, "acc") THEN Get(d, "acc") ELSE << >>,
      malformed |->
          { k \in Range(IntFields) : HasKey(d, k) /\ ~int(Get(d, k)).ok }
          \cup { k \in Range(FloatFields) : HasKey(d, k) /\ ~float_of_text(Get(d, k)).ok } ]

\* serialize, applied to one record and one length of the serialized message
SerializeInput ==
    /\ codecFn = "serialize"
    /\ \E order \in RecordOrders, edit \in ShortEdits, rawLen \in SerializedSizes :
         codecArg = [ order |-> order, edit |-> edit, rawLen |-> rawLen ]

\* struct_zlib_compress, applied to one record
StructInput ==
    /\ codecFn = "struct_zlib_compress"
    /\ \E order \in RecordOrders,
          edit \in ShortEdits \cup { [ field |-> "msisdn", change |-> "long" ] } :
         codecArg = RecordInput(order, edit)

\* ---- the generators of records
\* str(n), text.zfill(width), f"{n:02d}" and f"{x:.Nf}": a number as text.  A
\* number with N decimals is given in units of 10^-N (x = units / 10^N).
DigitChar(d) == << "0", "1", "2", "3", "4", "5", "6", "7", "8", "9" >>[d + 1]
RECURSIVE DecimalDigits(_)
DecimalDigits(n) ==
    IF n < 10 THEN << DigitChar(n) >> ELSE DecimalDigits(n \div 10) \o << DigitChar(n % 10) >>
str(n) == IF n < 0 THEN << "-" >> \o DecimalDigits(0 - n) ELSE DecimalDigits(n)
zfill(text, width) == IF Len(text) >= width THEN text ELSE Repeat("0", width - Len(text)) \o text
Power10(digits) == IF digits = 1 THEN 10 ELSE IF digits = 2 THEN 100 ELSE 10000
FormatFixed(units, digits) ==
    LET Text(a) == DecimalDigits(a \div Power10(digits)) \o << "." >>
                   \o zfill(DecimalDigits(a % Power10(digits)), digits)
    IN  IF units < 0 THEN << "-" >> \o Text(0 - units) ELSE Text(units)

\* what a generator draws: each group of random values at the low end, in the
\* middle or at the high end of its range, and the door
Levels == { "low", "mid", "high" }
Doors == { "D", "O", "C", "T" }
Draws == [ ids : Levels, ints : Levels, floats : Levels, door : Doors ]
Between(lo, hi, level) ==
    IF level = "low" THEN lo ELSE IF level = "high" THEN hi ELSE (lo + hi) \div 2

\* base_time.strftime(format)[:-5]: two digits for each of day, month, year,
\* hour, minute and second, a space after the date when the format has one,
\* and of the six digits of %f the first
strftime(level, space) ==
    LET Two(lo, hi) == zfill(str(Between(lo, hi, level)), 2) IN
    Two(1, 31) \o Two(1, 12) \o Two(0, 99) \o (IF space THEN << " " >> ELSE << >>)
    \o Two(0, 23) \o Two(0, 59) \o Two(0, 59) \o << "." >> \o str(Between(0, 9, level))

\* generate_test_container_data of a service, on one draw; the Compact Struct
\* service formats latitude and longitude with 2 decimals, the others with 4
GeneratingServices == { "struct", "msgpack", "cbor", "msgpack_project" }
generate_test_container_data(service, draw) ==
    LET I(lo, hi) == Between(lo, hi, draw.ints)
        F(lo, hi) == Between(lo, hi, draw.floats)
        LatLong(lo, hi) == IF service = "struct" THEN FormatFixed(F(lo, hi) \div 100, 2)
                           ELSE FormatFixed(F(lo, hi), 4)
    IN  << [ k |-> "msisdn", v |-> << "3", "9", "3", "6", "0", "0", "5", "0" >> \o str(Between(4800, 4999, draw.ids)) ],
           [ k |-> "iso6346", v |-> << "L", "M", "C", "U" >> \o zfill(str(Between(1, 999999, draw.ids)), 7) ],
           [ k |-> "time", v |-> strftime(draw.ids, TRUE) ],
           [ k |-> "rssi", v |-> str(I(15, 35)) ],
           [ k |-> "cgi", v |-> << "9", "9", "9", "-", "0", "1", "-", "1", "-", "3", "1", "D", "4", "1" >> ],
           [ k |-> "ble-m", v |-> str(I(0, 1)) ],
           [ k |-> "bat-soc", v |-> str(I(76, 96)) ],
           [ k |-> "acc", v |-> FormatFixed(F(-9939000, -9739000), 4) \o << " " >>
                                \o FormatFixed(F(-271000, -171000), 4) \o << " " >>
                                \o FormatFixed(F(-520000, -420000), 4) ],
           [ k |-> "temperature", v |-> FormatFixed(F(1700, 2700), 2) ],
           [ k |-> "humidity", v |-> FormatFixed(F(6100, 8100), 2) ],
           [ k |-> "pressure", v |-> FormatFixed(F(10024000, 10224000), 4) ],
           [ k |-> "door", v |-> << draw.door >> ],
           [ k |-> "gnss", v |-> str(I(0, 1)) ],
           [ k |-> "latitude", v |-> LatLong(316100, 321100) ],
           [ k |-> "longitude", v |-> LatLong(284900, 289900) ],
           [ k |-> "altitude", v |-> FormatFixed(F(3950, 5950), 2) ],
           [ k |-> "speed", v |-> FormatFixed(F(0, 400), 1) ],
           [ k |-> "heading", v |-> FormatFixed(F(0, 36000), 2) ],
           [ k |-> "nsat", v |-> zfill(str(I(4, 12)), 2) ],
           [ k |-> "hdop", v |-> FormatFixed(F(5, 55), 1) ] >>

\* the rssi of a sample, written as a negative number of dBm
SampleRssi_Signed(draw) == str(0 - Between(15, 35, draw.ints))
\* the rssi of a sample: str(randint(15, 35))
SampleRssi(draw) == str(Between(15, 35, draw.ints))

\* generate_sample of the Positional encoder, on one draw
generate_sample(draw) ==
    << [ k |-> "msisdn", v |-> << "3", "9", "3", "6", "0", "0", "5", "0" >> \o str(Between(4800, 4999, draw.ids)) ],
       [ k |-> "iso6346", v |-> << "L", "M", "C", "U" >> \o zfill(str(Between(1, 999999, draw.ids)), 7) ],
       [ k |-> "time", v |-> strftime(draw.ids, FALSE) ],
       [ k |-> "rssi", v |-> SampleRssi(draw) ],
       [ k |-> "cgi", v |-> << "9", "9", "9", "-", "0", "1", "-", "1", "-", "3", "1", "D", "4", "1" >> ],
       [ k |-> "ble-m", v |-> str(Between(0, 1, draw.ints)) ],
       [ k |-> "bat-soc", v |-> str(90 + Between(-10, 0, draw.ints)) ],
       [ k |-> "acc", v |-> << "-", "9", "9", "3", ".", "9", " ", "-", "2", "7", ".", "1", " ", "-", "5", "2", ".", "0" >> ],
       [ k |-> "temperature", v |-> << "2", "2", ".", "1", "0" >> ],
       [ k |-> "humidity", v |-> << "6", "8", ".", "0", "0" >> ],
       [ k |-> "pressure", v |-> << "1", "0", "1", "2", ".", "5", "0", "4", "3" >> ],
       [ k |-> "door", v |-> << "D" >> ],
       [ k |-> "gnss", v |-> << "1" >> ],
       [ k |-> "latitude", v |-> << "3", "1", ".", "8", "9", "1", "0" >> ],
       [ k |-> "longitude", v |-> << "2", "8", ".", "7", "0", "4", "1" >> ],
       [ k |-> "altitude", v |-> << "3", "8", ".", "1", "0" >> ],
       [ k |-> "speed", v |-> << "2", "7", ".", "3" >> ],
       [ k |-> "heading", v |-> << "1", "2", "5", ".", "3", "1" >> ],
       [ k |-> "nsat", v |-> << "0", "6" >> ],
       [ k |-> "hdop", v |-> << "1", ".", "8" >> ] >>

\* the generators, each applied to one draw (generate_test_data draws nothing)
GeneratorInput ==
    /\ codecFn \in { "generate_test_container_data", "generate_sample", "generate_test_data" }
    /\ \E service \in GeneratingServices, draw \in Draws :
         codecArg = [ service |-> IF codecFn = "generate_test_container_data" THEN service ELSE "none",
                      draw |-> IF codecFn = "generate_test_data"
                               THEN [ ids |-> "low", ints |-> "low", floats |-> "low", door |-> "D" ]
                               ELSE IF codecFn = "generate_sample"
                               THEN [ draw EXCEPT !.floats = "low", !.door = "D" ]
                               ELSE draw ]

\* test_compression of the Compact Struct service, applied to one sample
StructTestInput ==
    /\ codecFn = "test_compression_struct"
    /\ \E order \in RecordOrders, edit \in ShortEdits : codecArg = RecordInput(order, edit)

InitCodec ==
    /\ program = "codec"
    /\ \/ ParseAccInput
       \/ EncodeMapInput
       \/ EncodeStringInput
       \/ MapEncoderInput
       \/ RoundTripInput
       \/ ComparisonInput
       \/ StructInput
       \/ GeneratorInput
       \/ StructTestInput
       \/ SerializeInput
    /\ codecOut = [ pending |-> TRUE ]
    /\ SessionIdle
    /\ ServiceIdle
    /\ MainIdle

ApplyParseAcc ==
    /\ program = "codec"
    /\ codecFn = "parse_acc"
    /\ codecOut = [ pending |-> TRUE ]
    /\ codecOut' = parse_acc(codecArg.text)
    /\ UNCHANGED <<program, codecFn, codecArg, serviceVars, mainVars, sessionVars>>

ApplyEncodeMap ==
    /\ program = "codec"
    /\ codecFn = "msgpack_encode_map"
    /\ codecOut = [ pending |-> TRUE ]
    /\ codecOut' = msgpack_encode_map(codecArg)
    /\ UNCHANGED <<program, codecFn, codecArg, serviceVars, mainVars, sessionVars>>

ApplyEncodeString ==
    /\ program = "codec"
    /\ codecFn = "msgpack_encode_string"
    /\ codecOut = [ pending |-> TRUE ]
    /\ codecOut' = msgpack_encode_string(StringText(codecArg))
    /\ UNCHANGED <<program, codecFn, codecArg, serviceVars, mainVars, sessionVars>>

ApplySimulate ==
    /\ program = "codec"
    /\ codecFn = "simulate_c_msgpack_compression"
    /\ codecOut = [ pending |-> TRUE ]
    /\ codecOut' = simulate_c_msgpack_compression(RecordOf(codecArg))
    /\ UNCHANGED <<program, codecFn, codecArg, serviceVars, mainVars, sessionVars>>

ApplyMsgpackCompress ==
    /\ program = "codec"
    /\ codecFn = "msgpack_compress"
    /\ codecOut = [ pending |-> TRUE ]
    /\ codecOut' = msgpack_compress(RecordOf(codecArg))
    /\ UNCHANGED <<program, codecFn, codecArg, serviceVars, mainVars, sessionVars>>

ApplyCborCompress ==
    /\ program = "codec"
    /\ codecFn = "cbor_compress"
    /\ codecOut = [ pending |-> TRUE ]
    /\ codecOut' = cbor_compress(RecordOf(codecArg))
    /\ UNCHANGED <<program, codecFn, codecArg, serviceVars, mainVars, sessionVars>>

ApplyTestCompression ==
    /\ program = "codec"
    /\ codecFn \in RoundTrips
    /\ codecOut = [ pending |-> TRUE ]
    /\ codecOut' = test_compression(IF codecFn = "test_compression_cbor" THEN "cbor" ELSE "msgpack",
                                    RecordOf(codecArg))
    /\ UNCHANGED <<program, codecFn, codecArg, serviceVars, mainVars, sessionVars>>

ApplyMainComparison ==
    /\ program = "codec"
    /\ codecFn = "main_comparison"
    /\ codecOut = [ pending |-> TRUE ]
    /\ codecOut' = main_comparison(RecordOf(codecArg), codecArg.available)
    /\ UNCHANGED <<program, codecFn, codecArg, serviceVars, mainVars, sessionVars>>

ApplyStructZlibCompress ==
    /\ program = "codec"
    /\ codecFn = "struct_zlib_compress"
    /\ codecOut = [ pending |-> TRUE ]
    /\ codecOut' = struct_zlib_compress(RecordOf(codecArg))
    /\ UNCHANGED <<program, codecFn, codecArg, serviceVars, mainVars, sessionVars>>

ApplySerialize ==
    /\ program = "codec"
    /\ codecFn = "serialize"
    /\ codecOut = [ pending |-> TRUE ]
    /\ codecOut' = serialize(AsMapping(RecordOf(codecArg)), codecArg.rawLen)
    /\ UNCHANGED <<program, codecFn, codecArg, serviceVars, mainVars, sessionVars>>

ApplyStructTestCompression ==
    /\ program = "codec"
    /\ codecFn = "test_compression_struct"
    /\ codecOut = [ pending |-> TRUE ]
    /\ LET Compress(encoded) ==
               \E compressedLen \in (IF encoded.ok THEN ZlibSizes(Len(encoded.binary_data)) ELSE {0}) :
                  codecOut' = struct_test_compression(RecordOf(codecArg), compressedLen)
       IN  Compress(struct_zlib_compress(RecordOf(codecArg)))
    /\ UNCHANGED <<program, codecFn, codecArg, serviceVars, mainVars, sessionVars>>

ApplyGenerate ==
    /\ program = "codec"
    /\ codecFn \in { "generate_test_container_data", "generate_sample", "generate_test_data" }
    /\ codecOut = [ pending |-> TRUE ]
    /\ codecOut' =
         [ ok |-> TRUE,
           record |-> CASE codecFn = "generate_test_container_data" ->
                             generate_test_container_data(codecArg.service, codecArg.draw)
                        [] codecFn = "generate_sample" -> generate_sample(codecArg.draw)
                        [] codecFn = "generate_test_data" -> generate_test_data ]
    /\ UNCHANGED <<program, codecFn, codecArg, serviceVars, mainVars, sessionVars>>

NextCodec ==
    \/ ApplyParseAcc
    \/ ApplyEncodeMap
    \/ ApplyEncodeString
    \/ ApplySimulate
    \/ ApplyMsgpackCompress
    \/ ApplyCborCompress
    \/ ApplyTestCompression
    \/ ApplyMainComparison
    \/ ApplyStructZlibCompress
    \/ ApplyGenerate
    \/ ApplyStructTestCompression
    \/ ApplySerialize

SpecCodec == InitCodec /\ [][NextCodec]_vars

-----------------------------------------------------------------------------
(* A session: the four encoders called one after another in one process,   *)
(* in any order, each on any of the session's records.  What an encoder     *)
(* leaves behind stays in the state; the library's serialized size of a     *)
(* record is fixed for the session.                                          *)

\* a session makes at most this many calls
MaxCalls == 3

\* the records of a session: the literal record, one whose rssi is no number
\* and one without hdop
SessionRecords ==
    { RecordInput("fixed", NoEdit),
      RecordInput("fixed", [ field |-> "rssi", change |-> "malformed" ]),
      RecordInput("fixed", [ field |-> "hdop", change |-> "missing" ]) }
\* the records protobuf serializes, and the sizes it may give them
SerializableRecords == { x \in SessionRecords : json_to_protobuf(AsMapping(RecordOf(x))).ok }
SessionSizes == { MAX_PAYLOAD_SIZE - 1, MAX_PAYLOAD_SIZE }

\* the buffer an encoder starts from, its last call's buffer kept
FreshBuffer_Kept(previous) == previous
\* the buffer an encoder starts from: `result = bytearray()`, `values = []`
\* make a new empty one, whatever the last call left
FreshBuffer(previous) == << >>

\* zlib.compress(binary_data, level=9): a function of the buffer alone
zlib_compress(buffer) == [ zlib |-> buffer ]

Called(fn, x, out) == calls' = Append(calls, [ fn |-> fn, arg |-> x, out |-> out ])

InitSession ==
    /\ program = "session"
    /\ codecFn = "none" /\ codecArg = 0 /\ codecOut = 0
    /\ records = [ x \in SessionRecords |-> RecordOf(x) ]
    /\ result = << >> /\ binary_data = << >> /\ calls = << >>
    /\ serialized_size \in [ SerializableRecords -> SessionSizes ]
    /\ ServiceIdle
    /\ MainIdle

\* an encoder that takes the items out of the dict as it encodes them
\* (data.pop(name) for data[name])
CallSimulate_Consuming ==
    /\ program = "session" /\ Len(calls) < MaxCalls
    /\ \E x \in SessionRecords :
         LET Return(encoded, filled) ==
                 /\ result' = filled
                 /\ records' = [ records EXCEPT ![x] =
                                   SelectSeq(records[x], LAMBDA item : item.k \notin Range(SimFieldOrder)) ]
                 /\ Called("simulate_c_msgpack_compression", x,
                           IF encoded.ok THEN [ ok |-> TRUE, bytes |-> filled ] ELSE encoded)
             Fill(encoded) ==
                 Return(encoded, IF encoded.ok THEN FreshBuffer(result) \o encoded.bytes
                                 ELSE FreshBuffer(result))
         IN  Fill(simulate_c_msgpack_compression(records[x]))
    /\ UNCHANGED <<program, codecFn, codecArg, codecOut, binary_data, serialized_size,
                   serviceVars, mainVars>>
\* simulate_c_msgpack_compression(data): reads data[name] for the 20 names
CallSimulate ==
    /\ program = "session" /\ Len(calls) < MaxCalls
    /\ \E x \in SessionRecords :
         LET Return(encoded, filled) ==
                 /\ result' = filled
                 /\ Called("simulate_c_msgpack_compression", x,
                           IF encoded.ok THEN [ ok |-> TRUE, bytes |-> filled ] ELSE encoded)
             Fill(encoded) ==
                 Return(encoded, IF encoded.ok THEN FreshBuffer(result) \o encoded.bytes
                                 ELSE FreshBuffer(result))
         IN  Fill(simulate_c_msgpack_compression(records[x]))
    /\ UNCHANGED <<program, codecFn, codecArg, codecOut, records, binary_data, serialized_size,
                   serviceVars, mainVars>>

CallMsgpackCompress ==
    /\ program = "session" /\ Len(calls) < MaxCalls
    /\ \E x \in SessionRecords : Called("msgpack_compress", x, msgpack_compress(records[x]))
    /\ UNCHANGED <<program, codecFn, codecArg, codecOut, records, result, binary_data, serialized_size,
                   serviceVars, mainVars>>

CallStructZlibCompress ==
    /\ program = "session" /\ Len(calls) < MaxCalls
    /\ \E x \in SessionRecords :
         LET Return(encoded, filled) ==
                 /\ binary_data' = filled
                 /\ Called("struct_zlib_compress", x,
                           IF encoded.ok THEN [ ok |-> TRUE, compressed |-> zlib_compress(filled) ]
                           ELSE encoded)
             Fill(encoded) ==
                 Return(encoded, IF encoded.ok THEN FreshBuffer(binary_data) \o encoded.binary_data
                                 ELSE binary_data)
         IN  Fill(struct_zlib_compress(records[x]))
    /\ UNCHANGED <<program, codecFn, codecArg, codecOut, records, result, serialized_size,
                   serviceVars, mainVars>>

CallSerialize ==
    /\ program = "session" /\ Len(calls) < MaxCalls
    /\ \E x \in SessionRecords :
         Called("serialize", x,
                serialize(AsMapping(records[x]),
                          IF x \in DOMAIN serialized_size THEN serialized_size[x] ELSE 0))
    /\ UNCHANGED <<program, codecFn, codecArg, codecOut, records, result, binary_data, serialized_size,
                   serviceVars, mainVars>>

\* validate_fields(d): reads d and REQUIRED_FIELDS, returns None or raises
CallValidateFields ==
    /\ program = "session" /\ Len(calls) < MaxCalls
    /\ \E x \in SessionRecords :
         LET Return(checked) ==
                 Called("validate_fields", x,
                        IF checked.ok THEN [ ok |-> TRUE ] ELSE [ ok |-> FALSE, error |-> checked.error ])
         IN  Return(validate_fields(AsMapping(records[x])))
    /\ UNCHANGED <<program, codecFn, codecArg, codecOut, records, result, binary_data,
                   serialized_size, serviceVars, mainVars>>

NextSession ==
    \/ CallValidateFields
    \/ CallSimulate
    \/ CallMsgpackCompress
    \/ CallStructZlibCompress
    \/ CallSerialize

SpecSession == InitSession /\ [][NextSession]_vars

-----------------------------------------------------------------------------
(* The services and the pipeline: every program that hands a payload to a transport *)

Init == InitService \/ InitPositional

Next == NextService \/ NextPositional

Spec == Init /\ [][Next]_vars

-----------------------------------------------------------------------------
(* The Compact Struct service with fairness: every step of the running call is     *)
(* eventually taken, and the generator yields an in-budget sample           *)
(* infinitely often while the loop waits for one                            *)

InBudgetIteration ==
    \E size \in StructSampleSizes : size < MAX_PAYLOAD_SIZE /\ StructIteration(size)

InitStruct == InitService /\ program = "struct"

NextStruct ==
    \/ \E u \in Users : OnStart(u)
    \/ OuterLoop
    \/ \E size \in StructSampleSizes : StructIteration(size)
    \/ InnerLoopExit
    \/ FinishInit
    \/ \E u \in Users : StructSend(u)

LiveStruct ==
    /\ InitStruct
    /\ [][NextStruct]_vars
    /\ WF_vars(OuterLoop)
    /\ WF_vars(InnerLoopExit)
    /\ WF_vars(FinishInit)
    /\ SF_vars(InBudgetIteration)

-----------------------------------------------------------------------------
(* Properties *)

InitRunning == initPc \in { "outer", "inner", "finish" }

Oversized(sizes) == SelectSeq(sizes, LAMBDA n : n >= MAX_PAYLOAD_SIZE)
InBudget(sizes) == SelectSeq(sizes, LAMBDA n : n < MAX_PAYLOAD_SIZE)

\* C1: in the Compact Struct service, in every state during and after the
\* bulk pre-generation and whatever sizes the samples have, every entry held
\* in the pool has a size (and a payload length) below 158
C1_PoolWithinBudget ==
    program = "struct" =>
        \A i \in DOMAIN _data_pool :
            _data_pool[i].size < 158 /\ _data_pool[i].compressed < 158

\* C1's case: generation is under way, samples of 158 bytes and of more have
\* been generated, and the pool holds entries
C1_Witness ==
    /\ program = "struct" /\ initPc = "inner"
    /\ \E i \in DOMAIN samples : samples[i] = 158
    /\ \E i \in DOMAIN samples : samples[i] > 158
    /\ Len(_data_pool) >= 2

\* C2: in the Compact Struct service, once _pool_initialized is true (the
\* call returned normally, which needs a target of at least 1) the pool holds
\* exactly _data_pool_size entries; a step that rejects an oversized sample
\* changes neither generated_count nor batch_generated nor the pool; and
\* _pool_initialized turns true only in a step taken with the pool full
C2_BatchTarget ==
    /\ [](program = "struct" /\ _pool_initialized =>
            _data_pool_size >= 1 /\ Len(_data_pool) = _data_pool_size)
    /\ [][program = "struct" /\ Len(samples') > Len(samples)
              /\ samples'[Len(samples')] >= 158 =>
            /\ generated_count' = generated_count
            /\ batch_generated' = batch_generated
            /\ _data_pool' = _data_pool]_vars
    /\ [][program = "struct" /\ ~_pool_initialized /\ _pool_initialized' =>
            /\ Len(_data_pool) = _data_pool_size
            /\ _data_pool' = _data_pool]_vars

\* C2's case: the call is about to return with a full pool of 2 entries after
\* it discarded oversized samples
C2_Witness ==
    /\ program = "struct" /\ initPc = "finish"
    /\ _data_pool_size = 2 /\ Len(_data_pool) = 2
    /\ rejected_count >= 2

\* C3: during the bulk generation of the Compact Struct service
\* rejected_count is the number of samples generated so far whose size was
\* 158 or more, and the number of samples generated is len(pool) +
\* rejected_count; a rejecting step raises nothing and leaves the call in its
\* inner loop
C3_RejectionCounter ==
    /\ [](program = "struct" /\ InitRunning =>
            /\ rejected_count = Len(Oversized(samples))
            /\ Len(samples) = Len(_data_pool) + rejected_count)
    /\ [][program = "struct" /\ rejected_count' > rejected_count =>
            /\ initPc = "inner" /\ initPc' = "inner"
            /\ initError' = initError
            /\ userState' = userState
            /\ batch_target' = batch_target]_vars

\* C3's case: two samples were rejected, one of exactly 158 bytes, and one
\* was appended
C3_Witness ==
    /\ program = "struct" /\ initPc = "inner"
    /\ rejected_count = 2
    /\ \E i \in DOMAIN samples : samples[i] = 158
    /\ Len(_data_pool) = 1

\* C4: with a target of at least 1, a running bulk pre-generation of the
\* Compact Struct service eventually ends with _pool_initialized true, given
\* that in-budget samples keep coming; and no call with such a target ends
\* in an error, however many samples were rejected
C4_Termination ==
    /\ (program = "struct" /\ InitRunning /\ _data_pool_size >= 1) ~> _pool_initialized
    /\ [](program = "struct" /\ _data_pool_size >= 1 => ~initError)

\* C4's case: the call returned with the pool initialized after it had
\* rejected as many samples as the exploration allows
C4_Witness ==
    /\ program = "struct" /\ _pool_initialized /\ initPc = "idle"
    /\ _data_pool_size = 2 /\ Len(_data_pool) = 2
    /\ rejected_count = MaxRejected

\* C5: whenever serialize got as far as a serialized length L, it returned
\* bytes if and only if L < 158, and then exactly the L serialized bytes;
\* for L >= 158 (158 itself included) it raised an error that carries L and
\* the limit 158, returned no bytes, and main stopped there (no second try)
C5_SingleShotSizeCheck ==
    program = "positional" /\ serializedLen # -1 =>
        /\ raw.ok <=> serializedLen < 158
        /\ raw.ok => raw.len = serializedLen
        /\ ~raw.ok =>
            /\ raw = NoBytes
            /\ mainPc = "failed"
            /\ mainError = [ kind |-> "ValueError", what |-> "too large",
                             actual |-> serializedLen, limit |-> 158 ]
            /\ saved = {} /\ serialSent = {} /\ printed = {}

\* C5's case: the serialized record is exactly 158 bytes long and serialize failed
C5_Witness ==
    /\ program = "positional" /\ serializedLen = 158
    /\ mainPc = "failed" /\ mainError.kind = "ValueError"

\* C6: no payload of 158 bytes or more reaches a transport.  In the
\* Positional pipeline the steps after serialize (save_artifacts,
\* send_over_serial, the hex print) are reached, and files or serial lines
\* written, only when validate_fields and serialize succeeded on the record,
\* and what they write is the payload serialize returned; in the Compact
\* Struct service every POSTed body is shorter than 158 bytes
C6_NoOversizedTransmitted ==
    /\ program = "struct" => \A n \in posted : n < 158
    /\ program = "positional" =>
        /\ (mainPc \in { "save", "serial", "print", "done" }
              \/ saved # {} \/ serialSent # {} \/ printed # {}) =>
            /\ RequiredSet \subseteq data.keys
            /\ raw.ok /\ raw.len = serializedLen /\ raw.len < 158
        /\ \A n \in saved : n = raw.len /\ n < 158
        /\ \A h \in serialSent \cup printed : h = 2 * raw.len /\ h < 2 * 158

\* C6's case: users of the Compact Struct service have POSTed payloads from
\* a pool that was filled while oversized samples were generated
C6_Witness ==
    /\ program = "struct" /\ posted # {}
    /\ \E u \in Users : message_id[u] = MaxMessages

\* the Positional side of C6's case: a payload was saved and sent over serial
C6_WitnessPositional ==
    /\ program = "positional" /\ saved # {} /\ serialSent # {} /\ mainPc = "done"

\* C7 as stated: each of the encoders (Self-Describing Map services,
\* Positional, Compact Struct) applies length < 158 to every payload before
\* it is pooled, returned or sent
C7_AllEncodersCheckBudget ==
    /\ \A i \in DOMAIN _data_pool : _data_pool[i].size < 158
    /\ \A n \in posted : n < 158
    /\ raw.ok => raw.len < 158

\* C7, amended: the Positional encoder returns and the Compact Struct
\* service pools and POSTs only payloads shorter than 158 bytes; the
\* MessagePack and CBOR services apply no limit: they pool every sample
\* they generate (none is rejected) and a user POSTs every entry it reads
C7_BudgetWhereApplied ==
    /\ program = "struct" =>
        /\ \A i \in DOMAIN _data_pool : _data_pool[i].size < 158
        /\ \A n \in posted : n < 158
    /\ program = "positional" => (raw.ok => raw.len < 158)
    /\ program \in { "msgpack", "cbor" } =>
        /\ rejected_count = 0
        /\ InitRunning =>
             /\ Len(_data_pool) = Len(samples)
             /\ \A i \in DOMAIN samples : _data_pool[i].compressed = samples[i]
        /\ \A u \in Users : userState[u] = "running" =>
             \A i \in 1..Min(message_id[u], Len(_data_pool)) :
                 _data_pool[i].compressed \in posted

\* C7's case: a MessagePack user has POSTed a pooled payload of 158 bytes or more
C7_Witness ==
    /\ program = "msgpack"
    /\ \E n \in posted : n >= 158
    /\ \E u \in Users : message_id[u] = 2

\* C8: validate_fields fails if and only if a required name is absent from
\* the mapping; the error lists exactly the absent required names; keys that
\* are not required make no difference; and the call leaves the mapping as
\* it was
C8_ValidateFields ==
    /\ [](program = "positional" /\ mainPc # "validate" =>
            /\ (mainError.kind = "ValueError" /\ mainError.what = "missing")
                 <=> (\E k \in RequiredSet : k \notin data.keys)
            /\ mainError.kind = "ValueError" /\ mainError.what = "missing" =>
                 /\ mainPc = "failed"
                 /\ Range(mainError.fields) = RequiredSet \ data.keys
                 /\ Len(mainError.fields) = Cardinality(RequiredSet \ data.keys))
    /\ [][program = "positional" => data' = data]_vars

\* C8's case: a mapping with an extra key lacks two required names and
\* validate_fields failed naming both
C8_Witness ==
    /\ program = "positional" /\ mainPc = "failed"
    /\ "note" \in data.keys
    /\ mainError.kind = "ValueError" /\ mainError.what = "missing"
    /\ Len(mainError.fields) = 2

\* the number each token of AccTokens stands for
TokenValue(tok) ==
    CASE tok = << "-", "9", ".", "5" >> -> [ m |-> -95, e |-> 1 ]
      [] tok = << "7" >> -> [ m |-> 7, e |-> 0 ]
      [] tok = << "+", "2", ".", "0" >> -> [ m |-> 2, e |-> 0 ]

\* every empty separator is followed by a token that starts with a sign
SignBounded(arg) ==
    \A i \in DOMAIN arg.seps : arg.seps[i] = << >> => arg.tokens[i + 1][1] \in Signs

\* C9: for a text of k numeric tokens joined by a space, a comma, a comma
\* and a space, or nothing before a signed token, parse_acc finds exactly
\* the k tokens; it returns the three values in input order when k = 3 and
\* fails when k is 0, 1, 2 or 4; and whatever the text, it returns three
\* values or fails having found another number of tokens
C9_ParseAcc ==
    codecFn = "parse_acc" /\ codecOut # [ pending |-> TRUE ] =>
        /\ codecOut.ok => Len(codecOut.value) = 3
        /\ ~codecOut.ok => codecOut.error.found # 3
        /\ SignBounded(codecArg) =>
             IF Len(codecArg.tokens) = 3
             THEN /\ codecOut.ok
                  /\ codecOut.value = [ i \in 1..3 |-> TokenValue(codecArg.tokens[i]) ]
             ELSE /\ ~codecOut.ok
                  /\ codecOut.error.found = Len(codecArg.tokens)

\* C9's case: three tokens, the first two joined by nothing and the last two
\* by a comma and a space, parsed to their three values
C9_Witness ==
    /\ codecFn = "parse_acc" /\ codecOut # [ pending |-> TRUE ]
    /\ codecArg.tokens = << << "7" >>, << "-", "9", ".", "5" >>, << "+", "2", ".", "0" >> >>
    /\ codecArg.seps = << << >>, << ",", " " >> >>
    /\ codecOut.ok
    /\ codecOut.value = << [ m |-> 7, e |-> 0 ], [ m |-> -95, e |-> 1 ], [ m |-> 2, e |-> 0 ] >>

\* C10: for every entry count c in 0..65535 msgpack_encode_map returns the
\* single byte 0x80 + c when c <= 15 and the three bytes 0xde, c div 256,
\* c mod 256 otherwise; for 20 entries that is 0xde 0x00 0x14
C10_MapHeader ==
    codecFn = "msgpack_encode_map" /\ codecOut # [ pending |-> TRUE ]
        /\ codecArg \in 0..65535 =>
        /\ codecOut.ok
        /\ codecArg <= 15 => codecOut.bytes = << 128 + codecArg >>
        /\ codecArg > 15 => codecOut.bytes = << 222, codecArg \div 256, codecArg % 256 >>
        /\ codecArg = 20 => codecOut.bytes = << 222, 0, 20 >>

\* C10's case: the header of the 20-field record
C10_Witness ==
    /\ codecFn = "msgpack_encode_map" /\ codecArg = 20
    /\ codecOut = [ ok |-> TRUE, bytes |-> << 222, 0, 20 >> ]

\* the bytes of a filled text, written out: n copies of the fill character's bytes
FillBytes(arg) ==
    LET cb == Utf8Char(arg.fill) IN
    [ i \in 1..(arg.count * Len(cb)) |-> cb[((i - 1) % Len(cb)) + 1] ]

\* C11: for every text, of n bytes once encoded, msgpack_encode_string
\* returns the byte 0xa0 + n when n <= 31, the bytes 0xd9, n when
\* 32 <= n <= 255 and the bytes 0xda, n div 256, n mod 256 when n >= 256,
\* followed in each case by exactly the n bytes of the text
C11_StringTag ==
    codecFn = "msgpack_encode_string" /\ codecOut # [ pending |-> TRUE ] =>
        LET content == FillBytes(codecArg)
            n == Len(content)
        IN  /\ codecOut.ok
            /\ n <= 31 => codecOut.bytes = << 160 + n >> \o content
            /\ n >= 32 /\ n <= 255 => codecOut.bytes = << 217, n >> \o content
            /\ n >= 256 => codecOut.bytes = << 218, n \div 256, n % 256 >> \o content

\* C11 up to the largest length two bytes can hold: the same, for n <= 65535
C11_StringTagUpTo65535 ==
    codecFn = "msgpack_encode_string" /\ codecOut # [ pending |-> TRUE ]
        /\ Len(FillBytes(codecArg)) <= 65535 => C11_StringTag

\* a record that holds the 20 fields and nothing else
Complete(d) == Len(d) = 20 /\ \A k \in Range(SimFieldOrder) : HasKey(d, k)

\* the encoder a name stands for, and the grammar of its bytes
EncoderOf(fn, d) ==
    CASE fn = "simulate_c_msgpack_compression" -> simulate_c_msgpack_compression(d)
      [] fn = "msgpack_compress" -> msgpack_compress(d)
      [] fn = "cbor_compress" -> cbor_compress(d)
GrammarOf(fn) == IF fn = "cbor_compress" THEN "cbor" ELSE "msgpack"

\* the keys of an encoded map, in the order they lie on the wire
WireKeys(g, b) ==
    LET u == Unpack(g, b) IN
    IF u.ok THEN [ i \in 1..Len(u.items) |-> u.items[i].k ] ELSE << >>
FixedKeys == [ i \in 1..Len(SimFieldOrder) |-> KeyText(SimFieldOrder[i]) ]

\* C12: for the simulated encoder, msgpack_compress and cbor_compress, and
\* every iteration order of a record of the 20 fields, the keys lie on the
\* wire in the fixed order of the 20 names, and the bytes are those the
\* encoder gives the same field values in the fixed order
C12_FieldOrderInvariance ==
    codecFn \in MapEncoders /\ codecOut # [ pending |-> TRUE ]
        /\ Complete(RecordOf(codecArg)) =>
        /\ codecOut.ok
        /\ WireKeys(GrammarOf(codecFn), codecOut.bytes) = FixedKeys
        /\ codecOut = EncoderOf(codecFn, RecordOf([ codecArg EXCEPT !.order = "fixed" ]))

\* C12 for the simulated encoder alone, which lists the names itself
C12_SimulatedOrderInvariance ==
    codecFn = "simulate_c_msgpack_compression" => C12_FieldOrderInvariance

\* the bytes the simulated encoder gives the record of the state
SimulatedBytes == simulate_c_msgpack_compression(RecordOf(codecArg)).bytes
\* the bytes msgpack.packb gives it
ReferenceBytes == msgpack_compress(RecordOf(codecArg)).bytes

\* C13: for every record of the 20 fields with text values, test_compression
\* of the MessagePack and of the CBOR service decodes the encoded bytes and
\* finds them equal to the record, and the bytes of the simulated encoder
\* decode, by the MessagePack decoder, to the record
C13_RoundTrip ==
    codecFn \in RoundTrips \cup { "main_comparison" } /\ codecOut # [ pending |-> TRUE ]
        /\ Complete(RecordOf(codecArg)) =>
        /\ codecFn \in RoundTrips =>
             codecOut.decompression = "SUCCESS" /\ codecOut.matches = "YES"
        /\ codecFn = "main_comparison" =>
             LET decoded == msgpack_unpackb(SimulatedBytes) IN
             decoded.ok /\ SameMapping(decoded.items, RecordOf(codecArg))

\* C13 for the two libraries, whatever the record
C13_LibraryRoundTrip ==
    codecFn \in RoundTrips /\ codecOut # [ pending |-> TRUE ] =>
        codecOut.decompression = "SUCCESS" /\ codecOut.matches = "YES"

\* C13 for the simulated encoder, for values of up to 65535 bytes
C13_SimulatedRoundTripUpTo65535 ==
    codecFn = "main_comparison" /\ codecArg.edit.change # "long" => C13_RoundTrip

\* the comparison of main has run to its verdict, both encoders applied
Compared ==
    /\ codecFn = "main_comparison" /\ codecOut # [ pending |-> TRUE ]
    /\ codecArg.available /\ codecOut.ok

\* C15: for every record of the 20 fields with text values, the literal
\* record of generate_test_data among them, the simulated encoder and
\* msgpack.packb return the same bytes
C15_Parity ==
    Compared /\ Complete(RecordOf(codecArg)) => SimulatedBytes = ReferenceBytes

\* C15 for records in the fixed key order whose values are shorter than
\* 65536 bytes, the literal record among them
C15_ParityFixedOrderShort ==
    Compared /\ Complete(RecordOf(codecArg))
        /\ codecArg.order = "fixed" /\ codecArg.edit.change # "long" =>
        SimulatedBytes = ReferenceBytes

\* C16: the comparison of main reports a match exactly when the two
\* encoders' bytes are equal; bytes that differ, though of equal length,
\* are reported as a difference
C16_ParityVerdict ==
    Compared =>
        /\ codecOut.verdict = "matches" <=> SimulatedBytes = ReferenceBytes
        /\ SimulatedBytes # ReferenceBytes => codecOut.verdict = "differs"

\* C16, the half that holds: a reported difference is a difference, and
\* equal bytes are reported as a match
C16_DifferenceIsReal ==
    Compared =>
        /\ codecOut.verdict = "differs" => SimulatedBytes # ReferenceBytes
        /\ SimulatedBytes = ReferenceBytes => codecOut.verdict = "matches"

\* struct_zlib_compress has built its buffer from the record of the state
StructEncoded ==
    codecFn = "struct_zlib_compress" /\ codecOut # [ pending |-> TRUE ] /\ codecOut.ok

\* where in the 63-byte block each field lies (the first byte is byte 1)
LengthOffsets ==
    << << "msisdn", 1 >>, << "iso6346", 3 >>, << "time", 5 >>, << "cgi", 8 >>, << "door", 36 >> >>
IntOffsets ==
    << << "rssi", 7 >>, << "ble-m", 10 >>, << "bat-soc", 11 >>, << "gnss", 38 >>, << "nsat", 59 >> >>
AccOffsets == << 12, 16, 20 >>
FloatOffsets ==
    << << "temperature", 24 >>, << "humidity", 28 >>, << "pressure", 32 >>,
       << "latitude", 39 >>, << "longitude", 43 >>, << "altitude", 47 >>,
       << "speed", 51 >>, << "heading", 55 >>, << "hdop", 60 >> >>

\* the cells at..at+3 of buffer b are the four bytes of the number x
IsFloatAt(b, at, x) ==
    \A j \in 1..4 : b[at + j - 1] = [ kind |-> "f32", part |-> j, value |-> x ]
\* the bytes of the texts that precede text i in the tail of the buffer
RECURSIVE TextBytesBefore(_, _)
TextBytesBefore(r, i) ==
    IF i = 1 THEN 0
    ELSE TextBytesBefore(r, i - 1) + Len(encode_utf8(Get(r, LengthOffsets[i - 1][1])))

\* C17: the buffer struct_zlib_compress builds from a record it accepts is
\* a block of 63 bytes, in which each of msisdn, iso6346, time, cgi, door
\* has a 2-byte big-endian length equal to the byte length of its text,
\* each of the five integers one byte, acc three 4-byte floats and each of
\* the nine floats four bytes, at the places the 20-name order gives them,
\* followed by the bytes of the five texts in that order; the buffer is
\* 63 bytes plus the five byte lengths long
C17_StructLayout ==
    StructEncoded =>
        LET r == RecordOf(codecArg)
            b == codecOut.binary_data
            acc == split(Get(r, "acc"))
        IN  /\ Len(b) = 63 + TextBytesBefore(r, 6)
            /\ \A i \in 1..5 :
                 LET at == LengthOffsets[i][2]
                     bytes == encode_utf8(Get(r, LengthOffsets[i][1]))
                 IN  /\ b[at].kind = "byte" /\ b[at + 1].kind = "byte"
                     /\ 256 * b[at].value + b[at + 1].value = Len(bytes)
                     /\ \A j \in 1..Len(bytes) :
                          b[63 + TextBytesBefore(r, i) + j] = ByteCell(bytes[j])
            /\ \A i \in 1..5 :
                 b[IntOffsets[i][2]] = ByteCell(int(Get(r, IntOffsets[i][1])).value)
            /\ \A i \in 1..3 : IsFloatAt(b, AccOffsets[i], float(acc[i]))
            /\ \A i \in 1..9 :
                 IsFloatAt(b, FloatOffsets[i][2], float(Get(r, FloatOffsets[i][1])))

\* C17's case: a record whose cgi holds characters of two bytes is laid
\* out, the buffer longer than the record's characters
C17_Witness ==
    /\ StructEncoded
    /\ codecArg.edit = [ field |-> "cgi", change |-> "accent" ]
    /\ Len(codecOut.binary_data) = 63 + 12 + 11 + 15 + 5 + 1
    /\ codecOut.binary_data[9] = ByteCell(5)

\* struct_zlib_compress has returned or raised, the record holding an acc
StructDoneWithAcc ==
    /\ codecFn = "struct_zlib_compress" /\ codecOut # [ pending |-> TRUE ]
    /\ HasKey(RecordOf(codecArg), "acc")

\* the changes that write the three numbers of acc in one of the four
\* separator styles parse_acc accepts (the literal record separates by spaces)
FourStyles == { "none", "accComma", "accCommaSpace", "accNoSep" }

\* C18: struct_zlib_compress returns a payload only for an acc text that
\* holds exactly 3 numbers, and it accepts the three numbers in each of the
\* four separator styles parse_acc accepts
C18_ExactlyThree ==
    StructDoneWithAcc =>
        /\ codecOut.ok => Len(FindAllNumbers(Get(RecordOf(codecArg), "acc"), 1)) = 3
        /\ codecArg.edit.change \in FourStyles => codecOut.ok

\* C18, the part that holds: no payload comes from fewer than 3 numbers,
\* and three numbers separated by spaces are accepted
C18_NeverFewerThanThree ==
    StructDoneWithAcc =>
        /\ codecOut.ok => Len(FindAllNumbers(Get(RecordOf(codecArg), "acc"), 1)) >= 3
        /\ codecArg.edit.change = "none" => codecOut.ok

\* the encoders that type a record's numeric texts
TypingEncoders == { "struct_zlib_compress", "serialize" }

\* the record of the state holds a numeric field whose text is no number,
\* and a typing encoder has been applied to it
MalformedNumeric ==
    /\ codecFn \in TypingEncoders /\ codecOut # [ pending |-> TRUE ]
    /\ codecArg.edit.field \in ScalarFields
    /\ codecArg.edit.change \in { "malformed", "accent" }

\* an error that tells which field it is about
IdentifiesField(error, k) ==
    \/ error.kind = "KeyError" /\ error.what = k
    \/ "field" \in DOMAIN error /\ error.field = k

\* C19: when the text of one of the 14 integer and float fields does not
\* parse, json_to_protobuf (under serialize) and convert_to_typed_data
\* (under struct_zlib_compress) fail with an error that identifies the field
C19_FieldQualifiedErrors ==
    MalformedNumeric =>
        ~codecOut.ok /\ IdentifiesField(codecOut.error, codecArg.edit.field)

\* C19, the part that holds: the text that does not parse makes the encoder
\* fail with the ValueError of int() or float(), which in the struct encoder
\* quotes the text
C19_ParseFailureRaises ==
    MalformedNumeric =>
        /\ ~codecOut.ok /\ codecOut.error.kind = "ValueError"
        /\ codecOut.error.what = (IF codecArg.edit.field \in Range(IntFields) THEN "int" ELSE "float")
        /\ codecFn = "struct_zlib_compress" =>
             codecOut.error.text = Get(RecordOf(codecArg), codecArg.edit.field)

\* the encoders C20 names, and what their results hold on success
ValidatingEncoders == { "serialize", "struct_zlib_compress", "simulate_c_msgpack_compression" }
NoOutput(out) ==
    /\ ~out.ok
    /\ DOMAIN out \cap { "bytes", "binary_data", "len" } = {}

\* a record that lacks a field, or holds a numeric text that is no number,
\* or an acc that is not three numbers
MissingField == codecArg.edit.change = "missing"
InvalidRecord ==
    \/ MissingField
    \/ /\ codecArg.edit.field \in ScalarFields \cup { "acc" }
       /\ codecArg.edit.change \in { "malformed", "accent" }
    \/ codecArg.edit.change \in { "acc2", "acc4" }

\* C20: applied to a record that lacks a field or holds a malformed numeric
\* or acc text, serialize, struct_zlib_compress and
\* simulate_c_msgpack_compression raise an error and return no bytes
C20_NoPartialEncoding ==
    codecFn \in ValidatingEncoders /\ codecOut # [ pending |-> TRUE ] /\ InvalidRecord =>
        NoOutput(codecOut)

\* C20 for a missing field: each of the three encoders raises and returns nothing
C20_MissingFieldFails ==
    codecFn \in ValidatingEncoders /\ codecOut # [ pending |-> TRUE ] /\ MissingField =>
        NoOutput(codecOut) /\ codecOut.error = [ kind |-> "KeyError", what |-> codecArg.edit.field ]

\* C20 for serialize: every invalid record raises and returns nothing
C20_SerializeNoPartialEncoding ==
    codecFn = "serialize" => C20_NoPartialEncoding

\* C14: in a session, two calls of the same encoder on the same record
\* return the same, whatever was called before either and between them
C14_Determinism ==
    \A i \in DOMAIN calls : \A j \in DOMAIN calls :
        calls[i].fn = calls[j].fn /\ calls[i].arg = calls[j].arg =>
            calls[i].out = calls[j].out

\* C14's case: the simulated encoder is called on the literal record, then
\* the struct encoder, then the simulated encoder on the literal record
\* again, and both of its calls return the 300 bytes
C14_Witness ==
    /\ Len(calls) = 3
    /\ calls[1].fn = "simulate_c_msgpack_compression" /\ calls[3].fn = calls[1].fn
    /\ calls[2].fn = "struct_zlib_compress"
    /\ calls[1].arg = RecordInput("fixed", NoEdit) /\ calls[3].arg = calls[1].arg
    /\ calls[1].out.ok /\ Len(calls[1].out.bytes) = 300
    /\ calls[3].out.ok /\ Len(calls[3].out.bytes) = 300


-----------------------------------------------------------------------------
\* the sample whose size test_compression of the Compact Struct service reported
StructTested == codecFn = "test_compression_struct" /\ codecOut # [ pending |-> TRUE ]
LiteralRecord == RecordInput("fixed", NoEdit)

\* C21: for the literal record of generate_test_data the Self-Describing Map
\* encoding is strictly longer than the Compact Struct encoding, before and
\* after compression, and the compressed Compact Struct encoding is shorter
\* than 158 bytes, so that the size check reports PASS
C21_SchemeComparison ==
    (StructTested /\ codecArg = LiteralRecord) =>
        /\ codecOut.ok
        /\ simulate_c_msgpack_compression(generate_test_data).ok
        /\ Len(simulate_c_msgpack_compression(generate_test_data).bytes)
              > Len(struct_zlib_compress(generate_test_data).binary_data)
        /\ Len(simulate_c_msgpack_compression(generate_test_data).bytes) > codecOut.actual_bytes
        /\ Len(msgpack_compress(generate_test_data).bytes) > codecOut.actual_bytes
        /\ Len(cbor_compress(generate_test_data).bytes) > codecOut.actual_bytes
        /\ codecOut.actual_bytes < MAX_PAYLOAD_SIZE
        /\ codecOut.passes_size_check

\* the literal record, compressed to the 127 bytes zlib gives its 116
C21_Witness ==
    /\ StructTested /\ codecArg = LiteralRecord
    /\ codecOut.ok /\ codecOut.actual_bytes = 127 /\ codecOut.passes_size_check
    /\ Len(struct_zlib_compress(generate_test_data).binary_data) = 116
    /\ Len(simulate_c_msgpack_compression(generate_test_data).bytes) = 300

-----------------------------------------------------------------------------
CborEncoded == codecFn = "cbor_compress" /\ codecOut # [ pending |-> TRUE ]

\* the texts of a record, keys and values, as they are encoded
TextsOf(d) == [ i \in 1..2 * Len(d) |-> IF i % 2 = 1 THEN KeyText(d[(i + 1) \div 2].k)
                                         ELSE d[i \div 2].v ]
\* the bytes before the content of a text in each grammar
MsgpackHeadLen(text) == Len(PackStr(text)) - Len(encode_utf8(text))
CborHeadLen(text) == Len(CborText(text)) - Len(encode_utf8(text))
\* how many texts have a byte length from lo to hi
CountInClass(texts, lo, hi) ==
    Cardinality({ i \in 1..Len(texts) : Len(encode_utf8(texts[i])) \in lo..hi })

\* C22: the CBOR variant has the size classes and the map-header rule of the
\* MessagePack variant, so that for every record the two encodings have the
\* same length and every text's tag lies at the same position
C22_GrammarVariantEquivalence ==
    CborEncoded =>
        /\ codecOut.ok
        /\ Len(codecOut.bytes) = Len(msgpack_compress(RecordOf(codecArg)).bytes)
        /\ Len(CborHead(5, Len(RecordOf(codecArg))))
              = Len(msgpack_encode_map(Len(RecordOf(codecArg))).bytes)
        /\ \A i \in 1..2 * Len(RecordOf(codecArg)) :
              CborHeadLen(TextsOf(RecordOf(codecArg))[i])
                = MsgpackHeadLen(TextsOf(RecordOf(codecArg))[i])

\* C22, amended: the CBOR variant has its own size classes: a text's head is
\* one byte up to 23 bytes of content (MessagePack: up to 31), two up to 255
\* and three up to 65535, and the map header of 16 to 23 entries is a single
\* byte (MessagePack: three); the CBOR encoding of a record of 16 to 23
\* entries is the MessagePack one less 2 bytes plus one byte for every text
\* of 24 to 31 bytes, and it holds the same keys and values in the same order
C22_CborSizeClasses ==
    CborEncoded =>
        LET Same(d, texts, packed) ==
                /\ codecOut.ok
                /\ Len(d) \in 16..23
                /\ codecOut.bytes[1] = 160 + Len(d)
                /\ \A i \in 1..Len(texts) :
                      CborHeadLen(texts[i])
                        = (IF Len(encode_utf8(texts[i])) <= 23 THEN 1
                           ELSE IF Len(encode_utf8(texts[i])) <= 255 THEN 2 ELSE 3)
                /\ Len(codecOut.bytes) = Len(packed) - 2 + CountInClass(texts, 24, 31)
                /\ cbor_loads(codecOut.bytes).ok
                /\ cbor_loads(codecOut.bytes).items = msgpack_unpackb(packed).items
        IN  Same(RecordOf(codecArg), TextsOf(RecordOf(codecArg)),
                 msgpack_compress(RecordOf(codecArg)).bytes)

\* a record whose cgi has 24 bytes: two bytes of head in CBOR, one in MessagePack
C22_Witness ==
    /\ CborEncoded
    /\ codecArg = RecordInput("fixed", [ field |-> "cgi", change |-> "len24" ])
    /\ codecOut.ok
    /\ CborHeadLen(Get(RecordOf(codecArg), "cgi")) = 2
    /\ MsgpackHeadLen(Get(RecordOf(codecArg), "cgi")) = 1
    /\ codecOut.bytes[1] = 180
    /\ msgpack_compress(RecordOf(codecArg)).bytes[1] = 222

-----------------------------------------------------------------------------
\* once _pool_initialized is true it stays true and the pool is left as it is
PoolFrozen == [][ _pool_initialized => (_pool_initialized' /\ _data_pool' = _data_pool) ]_vars

\* C23: in one worker process, whatever the users and the order of their
\* on_start calls and tasks, a pool is made and populated at most once: no
\* on_start makes a new pool after a first population has begun, and once
\* _pool_initialized is true the pool's contents and length never change
C23_OnceOnlyPopulation ==
    /\ [](program \in Services => initCalls <= 1)
    /\ PoolFrozen

\* for a target of at least one entry the pool is made once, and it is
\* populated to the target by the first user that starts
C23_OnceOnlyForNonEmptyTarget ==
    /\ []((program \in Services /\ _data_pool_size >= 1) => initCalls <= 1)
    /\ []((program \in Services /\ _pool_initialized) =>
            initCalls = 1 /\ Len(_data_pool) = _data_pool_size)
    /\ PoolFrozen

-----------------------------------------------------------------------------
\* a step in which send_container_data of user u ran: no user changes state,
\* no call of initialize_data_pool is in progress, and u's counters move
SendBy(u) ==
    /\ program \in Services
    /\ userState[u] = "running" /\ userState' = userState
    /\ initPc = "idle" /\ initPc' = "idle"
    /\ (message_id'[u] # message_id[u] \/ data_index'[u] # data_index[u])

\* C24: for a pool of N >= 1 entries a running user's cursor satisfies
\* 0 <= data_index < N; it has read as many entries as its message_id says
\* and stands at that number mod N, so its k-th invocation reads entry
\* (k-1) mod N; every invocation posts the entry at the cursor and advances
\* the cursor by one mod N, and changes no other user's data_index or message_id
C24_RoundRobinCursor ==
    /\ [](\A u \in Users :
            (program \in Services /\ userState[u] = "running") =>
                /\ Len(_data_pool) >= 1
                /\ data_index[u] \in 0..(Len(_data_pool) - 1)
                /\ data_index[u] = message_id[u] % Len(_data_pool))
    /\ [][ \A u \in Users :
             SendBy(u) =>
                 /\ data_index'[u] = (data_index[u] + 1) % Len(_data_pool)
                 /\ message_id'[u] = message_id[u] + 1
                 /\ posted' = posted \cup { _data_pool[data_index[u] + 1].compressed }
                 /\ _data_pool' = _data_pool
                 /\ \A v \in Users \ { u } :
                       data_index'[v] = data_index[v] /\ message_id'[v] = message_id[v] ]_vars

\* a pool of two entries: one user has gone round it, the other is half-way
C24_Witness ==
    /\ program \in Services /\ Len(_data_pool) = 2
    /\ \E u, v \in Users :
         /\ userState[u] = "running" /\ message_id[u] = 2 /\ data_index[u] = 0
         /\ userState[v] = "running" /\ message_id[v] = 1 /\ data_index[v] = 1

-----------------------------------------------------------------------------
\* C25: a call of validate_fields, of simulate_c_msgpack_compression (with
\* msgpack_encode_map and msgpack_encode_string), of struct_zlib_compress
\* (with convert_to_typed_data) or of serialize (with json_to_protobuf and
\* parse_acc) leaves the record it was given as it was, and leaves alone the
\* state the process shares: the class-level pool and its flag, the users'
\* counters, the pipeline's state; and so when the call raises
C25_Purity ==
    /\ [](program = "session" => records = [ x \in SessionRecords |-> RecordOf(x) ])
    /\ [][ program = "session" =>
             /\ records' = records
             /\ UNCHANGED <<serviceVars, mainVars, serialized_size>> ]_vars

\* three calls, of which the first raised in int(), the second for a missing
\* name, and the third returned the 300 bytes
C25_Witness ==
    /\ program = "session" /\ Len(calls) = 3
    /\ calls[1].fn = "struct_zlib_compress" /\ ~calls[1].out.ok
    /\ calls[1].out.error.kind = "ValueError"
    /\ calls[2].fn = "serialize" /\ ~calls[2].out.ok
    /\ calls[2].arg = RecordInput("fixed", [ field |-> "hdop", change |-> "missing" ])
    /\ calls[3].fn = "simulate_c_msgpack_compression" /\ calls[3].out.ok
    /\ calls[3].arg = calls[1].arg
    /\ records[calls[3].arg] = RecordOf(calls[1].arg)

-----------------------------------------------------------------------------
Generated ==
    /\ codecFn \in { "generate_test_container_data", "generate_sample", "generate_test_data" }
    /\ codecOut # [ pending |-> TRUE ]
IsText(v) == DOMAIN v = 1..Len(v) /\ \A j \in DOMAIN v : v[j] \in DOMAIN OrdOf

\* C26: every record of generate_test_container_data (four services), of
\* generate_sample and of generate_test_data has exactly the 20 required
\* names as keys, in the fixed order, and a string for every value, so that
\* validate_fields accepts it; its acc gives exactly 3 numeric tokens and
\* its five small-integer fields parse to integers in 0..255
C26_GeneratedRecordsValid ==
    Generated =>
        LET Valid(r) ==
                /\ Len(r) = 20
                /\ \A i \in 1..20 : r[i].k = REQUIRED_FIELDS[i] /\ IsText(r[i].v)
                /\ validate_fields(AsMapping(r)).ok
                /\ Len(FindAllNumbers(Get(r, "acc"), 1)) = 3
                /\ parse_acc(Get(r, "acc")).ok
                /\ Len(split(Get(r, "acc"))) = 3
                /\ \A i \in 1..3 : float_of_text(split(Get(r, "acc"))[i]).ok
                /\ \A k \in Range(IntFields) :
                      int(Get(r, k)).ok /\ int(Get(r, k)).value \in 0..255
        IN  Valid(codecOut.record)

\* a record of the Compact Struct service drawn at the high end: rssi 35,
\* nsat "12", an acc of three negative numbers with four decimals
C26_Witness ==
    /\ Generated /\ codecFn = "generate_test_container_data"
    /\ codecArg.service = "struct" /\ codecArg.draw.ints = "high" /\ codecArg.draw.floats = "high"
    /\ Get(codecOut.record, "rssi") = << "3", "5" >>
    /\ Get(codecOut.record, "nsat") = << "1", "2" >>
    /\ Get(codecOut.record, "latitude") = << "3", "2", ".", "1", "1" >>
    /\ Len(Get(codecOut.record, "acc")) = 27
    /\ struct_zlib_compress(codecOut.record).ok

-----------------------------------------------------------------------------
SimulatedEncoded ==
    /\ codecFn = "simulate_c_msgpack_compression"
    /\ codecOut # [ pending |-> TRUE ]

\* C27: for every record that holds the 20 required names, whatever its
\* values, the bytes of simulate_c_msgpack_compression are at least 162 (3
\* of map header, 20 key tags, 119 key bytes, 20 value tags), so that
\* length < 158 is false for every record
C27_MapNeverWithinBudget ==
    (SimulatedEncoded /\ \A k \in Range(REQUIRED_FIELDS) : HasKey(RecordOf(codecArg), k)) =>
        /\ codecOut.ok
        /\ Len(codecOut.bytes) >= 162
        /\ Len(codecOut.bytes) >=
              Len(msgpack_encode_map(20).bytes) + 20 + 119 + 20
              + Len(ConcatBytes([ i \in 1..20 |-> encode_utf8(Get(RecordOf(codecArg), REQUIRED_FIELDS[i])) ],
                                1, 20))
        /\ ~(Len(codecOut.bytes) < MAX_PAYLOAD_SIZE)

\* the record of 20 empty strings: exactly 162 bytes
C27_Witness ==
    /\ SimulatedEncoded
    /\ codecArg = RecordInput("fixed", [ field |-> "all", change |-> "empty" ])
    /\ codecOut.ok /\ Len(codecOut.bytes) = 162

-----------------------------------------------------------------------------
\* struct_zlib_compress was applied to a record whose five small integers are
\* all there and all parse
StructAppliedToIntegers ==
    /\ codecFn = "struct_zlib_compress" /\ codecOut # [ pending |-> TRUE ]
    /\ \A k \in Range(IntFields) : HasKey(RecordOf(codecArg), k) /\ int(Get(RecordOf(codecArg), k)).ok
OutOfByteRange(d) == { k \in Range(IntFields) : int(Get(d, k)).value \notin 0..255 }

\* C28: struct_zlib_compress writes each of rssi, ble-m, bat-soc, gnss, nsat
\* as one unsigned byte equal to the parsed value when that is in 0..255;
\* when one of them is negative or above 255 it fails and returns no
\* payload: the value is never reduced modulo 256
C28_SmallIntegerRange ==
    StructAppliedToIntegers =>
        LET InRange(d, out) ==
                /\ out.ok =>
                      /\ OutOfByteRange(d) = {}
                      /\ \A i \in 1..5 :
                            /\ out.binary_data[IntOffsets[i][2]].kind = "byte"
                            /\ out.binary_data[IntOffsets[i][2]].value
                                  = int(Get(d, IntOffsets[i][1])).value
                      /\ Len(out.binary_data) = 63 + TextBytesBefore(d, 6)
                /\ OutOfByteRange(d) # {} =>
                      /\ NoOutput(out)
                      /\ out.error.kind = "struct.error"
        IN  InRange(RecordOf(codecArg), codecOut)

\* an rssi of 256: no payload, where a wrapped byte would have been 0
C28_Witness ==
    /\ StructAppliedToIntegers
    /\ codecArg = RecordInput("fixed", [ field |-> "rssi", change |-> "byteOver" ])
    /\ OutOfByteRange(RecordOf(codecArg)) = { "rssi" }
    /\ ~codecOut.ok /\ codecOut.error.kind = "struct.error"

\* a nsat of 255 is written as the byte 255
C28_WitnessInRange ==
    /\ StructAppliedToIntegers
    /\ codecArg = RecordInput("fixed", [ field |-> "nsat", change |-> "byteMax" ])
    /\ codecOut.ok /\ codecOut.binary_data[59] = ByteCell(255)

-----------------------------------------------------------------------------
\* the simulated encoder was applied, alone or by the comparison of main
SimulateApplied ==
    /\ codecFn \in { "simulate_c_msgpack_compression", "main_comparison" }
    /\ codecOut # [ pending |-> TRUE ]
\* what it returned
SimulatedOut ==
    IF codecFn = "simulate_c_msgpack_compression" THEN codecOut
    ELSE simulate_c_msgpack_compression(RecordOf(codecArg))
\* the items of a record under the 20 required names
RequiredItems(d) == SelectSeq(d, LAMBDA item : item.k \in Range(REQUIRED_FIELDS))

\* C29: whenever simulate_c_msgpack_compression succeeds, the map header
\* declares 20 entries and exactly 20 key/value pairs follow it, to the end
\* of the bytes; keys other than the 20 required names have no influence on
\* the bytes; and a mapping that lacks a required name makes it fail,
\* returning no bytes
C29_DeclaredCountMatchesPairs ==
    SimulateApplied =>
        LET Counted(d, out, decoded) ==
                /\ out.ok =>
                      /\ MapHead("msgpack", out.bytes, 1).ok
                      /\ MapHead("msgpack", out.bytes, 1).n = 20
                      /\ decoded.ok
                      /\ Len(decoded.items) = 20
                      /\ out = simulate_c_msgpack_compression(RequiredItems(d))
                /\ (\E k \in Range(REQUIRED_FIELDS) : ~HasKey(d, k)) => NoOutput(out)
            Decoded(d, out) ==
                Counted(d, out, IF out.ok THEN msgpack_unpackb(out.bytes) ELSE out)
        IN  Decoded(RecordOf(codecArg), SimulatedOut)

\* C29 for values of up to 65535 bytes
C29_DeclaredCountUpTo65535 ==
    (SimulateApplied /\ codecArg.edit.change # "long") => C29_DeclaredCountMatchesPairs

-----------------------------------------------------------------------------
\* one of the two encoders returned bytes of its widest class: a string of
\* more than 255 bytes, a map header for more than 15 entries
WidestClass ==
    /\ codecFn \in { "msgpack_encode_string", "msgpack_encode_map" }
    /\ codecOut # [ pending |-> TRUE ] /\ codecOut.ok
    /\ codecFn = "msgpack_encode_string" => Len(FillBytes(codecArg)) > 255
    /\ codecFn = "msgpack_encode_map" => codecArg > 15
\* the length or count the encoder was given
TrueLength == IF codecFn = "msgpack_encode_string" THEN Len(FillBytes(codecArg)) ELSE codecArg

\* C30: the 2-byte big-endian field after 0xda or 0xde equals the true byte
\* length of the string, or the true entry count, for every input the
\* encoder accepts, so that a decoder finds the end of each string
C30_LengthFieldExact ==
    WidestClass =>
        /\ codecOut.bytes[1] = (IF codecFn = "msgpack_encode_string" THEN 218 ELSE 222)
        /\ FromBigEndian(codecOut.bytes, 2, 2) = TrueLength
        /\ codecFn = "msgpack_encode_string" =>
              /\ ReadStr("msgpack", codecOut.bytes, 1).ok
              /\ ReadStr("msgpack", codecOut.bytes, 1).next = Len(codecOut.bytes) + 1
        /\ codecFn = "msgpack_encode_map" =>
              MapHead("msgpack", codecOut.bytes, 1).n = TrueLength

\* C30 for lengths and counts of up to 65535
C30_LengthFieldExactUpTo65535 ==
    (WidestClass /\ TrueLength <= 65535) => C30_LengthFieldExact

\* the encoders accept a length or count of 65536 and do not raise
C30_AcceptsBeyond16Bits ==
    (codecFn \in { "msgpack_encode_string", "msgpack_encode_map" }
        /\ codecOut # [ pending |-> TRUE ]) => codecOut.ok
====
